---- MODULE Spec2Model ----
(***************************************************************************)
(* A small-step model of the littlelang tree-walk interpreter              *)
(* (interpreter.go, functions.go, errors.go) run on parsed programs.       *)
(*                                                                         *)
(* The Go call stack of the interpreter is the continuation stack `kont`:  *)
(* one frame per Go function activation that still has work to do         *)
(* (executeBlock loops, evaluate cases waiting for an operand,             *)
(* userFunction.call with its two deferred popScope calls, callFunction    *)
(* with its deferred recover).  A Go panic is the control mode "panic",   *)
(* which pops the frames one by one and runs their deferred functions.     *)
(*                                                                         *)
(* Strings are sequences of bytes; the programs of the corpus use ASCII    *)
(* bytes only (below 128), where one byte is one rune.                      *)
(***************************************************************************)
EXTENDS Integers, Sequences, FiniteSets, TLC

VARIABLES
    prog,       \* the parsed program handed to Execute
    vars,       \* interp.vars: the stack of scopes (references into scopes)
    scopes,     \* the heap of scope maps, map[string]Value
    lists,      \* the heap of list objects: the []Value slice headers
    arrays,     \* the heap of backing arrays of the slices
    maps,       \* the heap of map objects, map[string]Value
    funcs,      \* the heap of userFunction objects
    stdout,     \* the bytes written to interp.stdout
    stats,      \* interp.stats
    ctrl,       \* what the interpreter is doing now
    kont,       \* the Go call stack above Execute, innermost frame first
    err,        \* the error Execute returns
    parent,     \* history: for each scope, the scope its function captured
    defScope,   \* history: for each userFunction, the top scope at creation
    lastExit,   \* history: the last user-function call that ended
    lastAlias,  \* history: the last `x = y` assignment between two names
    lastFresh,  \* history: the last container made by +, or slice()
    lastError,  \* history: the state at the moment the last error was raised
    lastReturn, \* history: the last return statement that was executed
    src,        \* the source text given to the tokenizer and to the parser
    tokenizer,  \* the Tokenizer made for src by NewTokenizer
    tokens,     \* history: what the calls of Next() returned so far
    parsed,     \* what ParseExpression or ParseProgram returned for src
    reparsed    \* what ParseExpression returned for the String() of parsed

\* the state of the interpreter
ivars ==
    << prog, vars, scopes, lists, arrays, maps, funcs, stdout, stats, ctrl,
       kont, err, parent, defScope, lastExit, lastAlias, lastFresh,
       lastError, lastReturn >>

\* the state of the tokenizer and of the parser
pvars ==
    << src, tokenizer, tokens, parsed, reparsed >>

allvars ==
    << ivars, pvars >>

(***************************************************************************)
(* Runtime values (type Value interface{}).                                *)
(***************************************************************************)
NilV ==
    [k |-> "nil"]

BoolV(b) ==
    [k |-> "bool", b |-> b]

IntV(n) ==
    [k |-> "int", n |-> n]

StrV(s) ==
    [k |-> "str", s |-> s]

ListV(id) ==
    [k |-> "list", id |-> id]

MapV(id) ==
    [k |-> "map", id |-> id]

FuncV(id) ==
    [k |-> "func", id |-> id]

BuiltinV(name) ==
    [k |-> "builtin", name |-> name]

IsFunction(v) ==
    v.k \in {"func", "builtin"}

(***************************************************************************)
(* Positions and AST nodes (parser/ast.go), as the parser builds them.     *)
(***************************************************************************)
P(line, column) ==
    [Line |-> line, Column |-> column]

Literal(pos, value) ==
    [t |-> "Literal", pos |-> pos, Value |-> value]

Variable(pos, name) ==
    [t |-> "Variable", pos |-> pos, Name |-> name]

Binary(pos, left, op, right) ==
    [t |-> "Binary", pos |-> pos, Left |-> left, Operator |-> op, Right |-> right]

Unary(pos, op, operand) ==
    [t |-> "Unary", pos |-> pos, Operator |-> op, Operand |-> operand]

Call(pos, function, arguments, ellipsis) ==
    [t |-> "Call", pos |-> pos, Function |-> function,
     Arguments |-> arguments, Ellipsis |-> ellipsis]

List(pos, values) ==
    [t |-> "List", pos |-> pos, Values |-> values]

MapItem(key, value) ==
    [Key |-> key, Value |-> value]

Map(pos, items) ==
    [t |-> "Map", pos |-> pos, Items |-> items]

Subscript(pos, container, subscript) ==
    [t |-> "Subscript", pos |-> pos, Container |-> container, Subscript |-> subscript]

FunctionExpression(pos, parameters, ellipsis, body) ==
    [t |-> "FunctionExpression", pos |-> pos, Parameters |-> parameters,
     Ellipsis |-> ellipsis, Body |-> body]

Assign(pos, target, value) ==
    [t |-> "Assign", pos |-> pos, Target |-> target, Value |-> value]

If(pos, condition, body, else) ==
    [t |-> "If", pos |-> pos, Condition |-> condition, Body |-> body, Else |-> else]

While(pos, condition, body) ==
    [t |-> "While", pos |-> pos, Condition |-> condition, Body |-> body]

For(pos, name, iterable, body) ==
    [t |-> "For", pos |-> pos, Name |-> name, Iterable |-> iterable, Body |-> body]

Return(pos, result) ==
    [t |-> "Return", pos |-> pos, Result |-> result]

ExpressionStatement(pos, expression) ==
    [t |-> "ExpressionStatement", pos |-> pos, Expression |-> expression]

FunctionDefinition(pos, name, parameters, ellipsis, body) ==
    [t |-> "FunctionDefinition", pos |-> pos, Name |-> name,
     Parameters |-> parameters, Ellipsis |-> ellipsis, Body |-> body]

(***************************************************************************)
(* Errors (errors.go) and the two other things the Go code panics with.    *)
(***************************************************************************)
typeError(pos, format, args) ==
    [kind |-> "type error", pos |-> pos, format |-> format, args |-> args]

valueError(pos, format, args) ==
    [kind |-> "value error", pos |-> pos, format |-> format, args |-> args]

nameError(pos, format, args) ==
    [kind |-> "name error", pos |-> pos, format |-> format, args |-> args]

runtimeError(pos, format, args) ==
    [kind |-> "runtime error", pos |-> pos, format |-> format, args |-> args]

returnResult(value, pos) ==
    [kind |-> "returnResult", value |-> value, pos |-> pos]

\* a panic of the Go runtime or a panic(string): not an interpreter Error
goPanic(message) ==
    [kind |-> "go panic", message |-> message]

ErrorKinds ==
    {"type error", "value error", "name error", "runtime error"}

IsError(p) ==
    p.kind \in ErrorKinds

NoError ==
    [kind |-> "nil"]

(***************************************************************************)
(* The programs the interpreter is run on, as parser.ParseProgram builds    *)
(* them (each with its source text).                                       *)
(***************************************************************************)
\* func make_adder(n) {
\*     func adder(x) {
\*         return x + n
\*     }
\*     return adder
\* }
\* add5 = make_adder(5)
\* add3 = make_adder(3)
\* print(add5(1), add3(10))
Prog_adder ==
    <<
      FunctionDefinition(P(1, 1), "make_adder", <<"n">>, FALSE,
        <<
          FunctionDefinition(P(2, 5), "adder", <<"x">>, FALSE,
            <<
              Return(P(3, 9),
                Binary(P(3, 18), Variable(P(3, 16), "x"), "+", Variable(P(3, 20), "n")))>>),
          Return(P(5, 5), Variable(P(5, 12), "adder"))>>),
      Assign(P(7, 6),
        Variable(P(7, 1), "add5"),
        Call(P(7, 18), Variable(P(7, 8), "make_adder"), <<Literal(P(7, 19), IntV(5))>>, FALSE)),
      Assign(P(8, 6),
        Variable(P(8, 1), "add3"),
        Call(P(8, 18), Variable(P(8, 8), "make_adder"), <<Literal(P(8, 19), IntV(3))>>, FALSE)),
      ExpressionStatement(P(9, 1),
        Call(P(9, 6),
          Variable(P(9, 1), "print"),
          <<
            Call(P(9, 11), Variable(P(9, 7), "add5"), <<Literal(P(9, 12), IntV(1))>>, FALSE),
            Call(P(9, 20), Variable(P(9, 16), "add3"), <<Literal(P(9, 21), IntV(10))>>, FALSE)>>,
          FALSE))>>

\* func make_counter() {
\*     i = [0]
\*     func count() {
\*         i[0] = i[0] + 1
\*         print(i[0])
\*     }
\*     return count
\* }
\* counter = make_counter()
\* counter()
\* counter()
Prog_counter ==
    <<
      FunctionDefinition(P(1, 1), "make_counter", <<>>, FALSE,
        <<
          Assign(P(2, 7), Variable(P(2, 5), "i"), List(P(2, 9), <<Literal(P(2, 10), IntV(0))>>)),
          FunctionDefinition(P(3, 5), "count", <<>>, FALSE,
            <<
              Assign(P(4, 14),
                Subscript(P(4, 10), Variable(P(4, 9), "i"), Literal(P(4, 11), IntV(0))),
                Binary(P(4, 21),
                  Subscript(P(4, 17), Variable(P(4, 16), "i"), Literal(P(4, 18), IntV(0))),
                  "+",
                  Literal(P(4, 23), IntV(1)))),
              ExpressionStatement(P(5, 9),
                Call(P(5, 14),
                  Variable(P(5, 9), "print"),
                  <<Subscript(P(5, 16), Variable(P(5, 15), "i"), Literal(P(5, 17), IntV(0)))>>,
                  FALSE))>>),
          Return(P(7, 5), Variable(P(7, 12), "count"))>>),
      Assign(P(9, 9),
        Variable(P(9, 1), "counter"),
        Call(P(9, 23), Variable(P(9, 11), "make_counter"), <<>>, FALSE)),
      ExpressionStatement(P(10, 1), Call(P(10, 8), Variable(P(10, 1), "counter"), <<>>, FALSE)),
      ExpressionStatement(P(11, 1), Call(P(11, 8), Variable(P(11, 1), "counter"), <<>>, FALSE))>>

\* x = 0
\* func f() { x = 1 }
\* r = f()
\* print(x, r)
Prog_fallthrough ==
    <<
      Assign(P(1, 3), Variable(P(1, 1), "x"), Literal(P(1, 5), IntV(0))),
      FunctionDefinition(P(2, 1), "f", <<>>, FALSE,
        <<Assign(P(2, 14), Variable(P(2, 12), "x"), Literal(P(2, 16), IntV(1)))>>),
      Assign(P(3, 3), Variable(P(3, 1), "r"), Call(P(3, 6), Variable(P(3, 5), "f"), <<>>, FALSE)),
      ExpressionStatement(P(4, 1),
        Call(P(4, 6),
          Variable(P(4, 1), "print"),
          <<Variable(P(4, 7), "x"), Variable(P(4, 10), "r")>>,
          FALSE))>>

\* func find(lst, x) {
\*     i = 0
\*     for v in lst {
\*         if v == x {
\*             while true {
\*                 if i >= 0 { return i }
\*                 i = i + 100
\*             }
\*         }
\*         i = i + 1
\*     }
\*     return -1
\* }
\* r = find([5, 6, 7], 6)
\* print(r, find([], 1))
Prog_nested_return ==
    <<
      FunctionDefinition(P(1, 1), "find", <<"lst", "x">>, FALSE,
        <<
          Assign(P(2, 7), Variable(P(2, 5), "i"), Literal(P(2, 9), IntV(0))),
          For(P(3, 5), "v",
            Variable(P(3, 14), "lst"),
            <<
              If(P(4, 9),
                Binary(P(4, 14), Variable(P(4, 12), "v"), "==", Variable(P(4, 17), "x")),
                <<
                  While(P(5, 13),
                    Literal(P(5, 19), BoolV(TRUE)),
                    <<
                      If(P(6, 17),
                        Binary(P(6, 22), Variable(P(6, 20), "i"), ">=", Literal(P(6, 25), IntV(0))),
                        <<Return(P(6, 29), Variable(P(6, 36), "i"))>>,
                        <<>>),
                      Assign(P(7, 19),
                        Variable(P(7, 17), "i"),
                        Binary(P(7, 23), Variable(P(7, 21), "i"), "+", Literal(P(7, 25), IntV(100))))>>)>>,
                <<>>),
              Assign(P(10, 11),
                Variable(P(10, 9), "i"),
                Binary(P(10, 15), Variable(P(10, 13), "i"), "+", Literal(P(10, 17), IntV(1))))>>),
          Return(P(12, 5), Unary(P(12, 12), "-", Literal(P(12, 13), IntV(1))))>>),
      Assign(P(14, 3),
        Variable(P(14, 1), "r"),
        Call(P(14, 9),
          Variable(P(14, 5), "find"),
          <<
            List(P(14, 10),
              <<
                Literal(P(14, 11), IntV(5)),
                Literal(P(14, 14), IntV(6)),
                Literal(P(14, 17), IntV(7))>>),
            Literal(P(14, 21), IntV(6))>>,
          FALSE)),
      ExpressionStatement(P(15, 1),
        Call(P(15, 6),
          Variable(P(15, 1), "print"),
          <<
            Variable(P(15, 7), "r"),
            Call(P(15, 14),
              Variable(P(15, 10), "find"),
              <<List(P(15, 15), <<>>), Literal(P(15, 19), IntV(1))>>,
              FALSE)>>,
          FALSE))>>

\* func fact(n) {
\*     if n <= 1 { return 1 }
\*     r = fact(n - 1)
\*     return n * r
\* }
\* r = 10
\* n = 3
\* print(fact(n), r, n)
Prog_recursion ==
    <<
      FunctionDefinition(P(1, 1), "fact", <<"n">>, FALSE,
        <<
          If(P(2, 5),
            Binary(P(2, 10), Variable(P(2, 8), "n"), "<=", Literal(P(2, 13), IntV(1))),
            <<Return(P(2, 17), Literal(P(2, 24), IntV(1)))>>,
            <<>>),
          Assign(P(3, 7),
            Variable(P(3, 5), "r"),
            Call(P(3, 13),
              Variable(P(3, 9), "fact"),
              <<Binary(P(3, 16), Variable(P(3, 14), "n"), "-", Literal(P(3, 18), IntV(1)))>>,
              FALSE)),
          Return(P(4, 5), Binary(P(4, 14), Variable(P(4, 12), "n"), "*", Variable(P(4, 16), "r")))>>),
      Assign(P(6, 3), Variable(P(6, 1), "r"), Literal(P(6, 5), IntV(10))),
      Assign(P(7, 3), Variable(P(7, 1), "n"), Literal(P(7, 5), IntV(3))),
      ExpressionStatement(P(8, 1),
        Call(P(8, 6),
          Variable(P(8, 1), "print"),
          <<
            Call(P(8, 11), Variable(P(8, 7), "fact"), <<Variable(P(8, 12), "n")>>, FALSE),
            Variable(P(8, 16), "r"),
            Variable(P(8, 19), "n")>>,
          FALSE))>>

\* i = 0
\* func f(a) {
\*     for i in [1, 2] { a = a + i }
\*     func h() { return a }
\*     x = h
\*     return x()
\* }
\* func g() {
\*     y = 1
\*     z = f(y)
\*     return [y, z]
\* }
\* print(g(), i)
Prog_callee_writes ==
    <<
      Assign(P(1, 3), Variable(P(1, 1), "i"), Literal(P(1, 5), IntV(0))),
      FunctionDefinition(P(2, 1), "f", <<"a">>, FALSE,
        <<
          For(P(3, 5), "i",
            List(P(3, 14), <<Literal(P(3, 15), IntV(1)), Literal(P(3, 18), IntV(2))>>),
            <<
              Assign(P(3, 25),
                Variable(P(3, 23), "a"),
                Binary(P(3, 29), Variable(P(3, 27), "a"), "+", Variable(P(3, 31), "i")))>>),
          FunctionDefinition(P(4, 5), "h", <<>>, FALSE,
            <<Return(P(4, 16), Variable(P(4, 23), "a"))>>),
          Assign(P(5, 7), Variable(P(5, 5), "x"), Variable(P(5, 9), "h")),
          Return(P(6, 5), Call(P(6, 13), Variable(P(6, 12), "x"), <<>>, FALSE))>>),
      FunctionDefinition(P(8, 1), "g", <<>>, FALSE,
        <<
          Assign(P(9, 7), Variable(P(9, 5), "y"), Literal(P(9, 9), IntV(1))),
          Assign(P(10, 7),
            Variable(P(10, 5), "z"),
            Call(P(10, 10), Variable(P(10, 9), "f"), <<Variable(P(10, 11), "y")>>, FALSE)),
          Return(P(11, 5), List(P(11, 12), <<Variable(P(11, 13), "y"), Variable(P(11, 16), "z")>>))>>),
      ExpressionStatement(P(13, 1),
        Call(P(13, 6),
          Variable(P(13, 1), "print"),
          <<Call(P(13, 8), Variable(P(13, 7), "g"), <<>>, FALSE), Variable(P(13, 12), "i")>>,
          FALSE))>>

\* func g() { return a }
\* func f() {
\*     a = 1
\*     return g()
\* }
\* print(f())
Prog_dynamic ==
    <<
      FunctionDefinition(P(1, 1), "g", <<>>, FALSE, <<Return(P(1, 12), Variable(P(1, 19), "a"))>>),
      FunctionDefinition(P(2, 1), "f", <<>>, FALSE,
        <<
          Assign(P(3, 7), Variable(P(3, 5), "a"), Literal(P(3, 9), IntV(1))),
          Return(P(4, 5), Call(P(4, 13), Variable(P(4, 12), "g"), <<>>, FALSE))>>),
      ExpressionStatement(P(6, 1),
        Call(P(6, 6),
          Variable(P(6, 1), "print"),
          <<Call(P(6, 8), Variable(P(6, 7), "f"), <<>>, FALSE)>>,
          FALSE))>>

\* func outer(n) {
\*     func mid() {
\*         func inner() { return n }
\*         return inner
\*     }
\*     return mid
\* }
\* print(outer(5)()())
Prog_deep_closure ==
    <<
      FunctionDefinition(P(1, 1), "outer", <<"n">>, FALSE,
        <<
          FunctionDefinition(P(2, 5), "mid", <<>>, FALSE,
            <<
              FunctionDefinition(P(3, 9), "inner", <<>>, FALSE,
                <<Return(P(3, 24), Variable(P(3, 31), "n"))>>),
              Return(P(4, 9), Variable(P(4, 16), "inner"))>>),
          Return(P(6, 5), Variable(P(6, 12), "mid"))>>),
      ExpressionStatement(P(8, 1),
        Call(P(8, 6),
          Variable(P(8, 1), "print"),
          <<
            Call(P(8, 17),
              Call(P(8, 15),
                Call(P(8, 12), Variable(P(8, 7), "outer"), <<Literal(P(8, 13), IntV(5))>>, FALSE),
                <<>>,
                FALSE),
              <<>>,
              FALSE)>>,
          FALSE))>>

\* func mk() {
\*     func get() { return v }
\*     v = 7
\*     return get
\* }
\* g = mk()
\* print(g())
Prog_late_binding ==
    <<
      FunctionDefinition(P(1, 1), "mk", <<>>, FALSE,
        <<
          FunctionDefinition(P(2, 5), "get", <<>>, FALSE,
            <<Return(P(2, 18), Variable(P(2, 25), "v"))>>),
          Assign(P(3, 7), Variable(P(3, 5), "v"), Literal(P(3, 9), IntV(7))),
          Return(P(4, 5), Variable(P(4, 12), "get"))>>),
      Assign(P(6, 3), Variable(P(6, 1), "g"), Call(P(6, 7), Variable(P(6, 5), "mk"), <<>>, FALSE)),
      ExpressionStatement(P(7, 1),
        Call(P(7, 6),
          Variable(P(7, 1), "print"),
          <<Call(P(7, 8), Variable(P(7, 7), "g"), <<>>, FALSE)>>,
          FALSE))>>

\* func f() { return a }
\* a = 42
\* print(f())
Prog_global_late ==
    <<
      FunctionDefinition(P(1, 1), "f", <<>>, FALSE, <<Return(P(1, 12), Variable(P(1, 19), "a"))>>),
      Assign(P(2, 3), Variable(P(2, 1), "a"), Literal(P(2, 5), IntV(42))),
      ExpressionStatement(P(3, 1),
        Call(P(3, 6),
          Variable(P(3, 1), "print"),
          <<Call(P(3, 8), Variable(P(3, 7), "f"), <<>>, FALSE)>>,
          FALSE))>>

\* a = [1]
\* b = a
\* append(b, 2)
\* b[0] = 9
\* print(a)
\* m = {"k": 1}
\* n = m
\* n.z = 2
\* print(m)
\* s = 5
\* t = s
\* t = t + 1
\* print(s, t)
Prog_alias ==
    <<
      Assign(P(1, 3), Variable(P(1, 1), "a"), List(P(1, 5), <<Literal(P(1, 6), IntV(1))>>)),
      Assign(P(2, 3), Variable(P(2, 1), "b"), Variable(P(2, 5), "a")),
      ExpressionStatement(P(3, 1),
        Call(P(3, 7),
          Variable(P(3, 1), "append"),
          <<Variable(P(3, 8), "b"), Literal(P(3, 11), IntV(2))>>,
          FALSE)),
      Assign(P(4, 6),
        Subscript(P(4, 2), Variable(P(4, 1), "b"), Literal(P(4, 3), IntV(0))),
        Literal(P(4, 8), IntV(9))),
      ExpressionStatement(P(5, 1),
        Call(P(5, 6), Variable(P(5, 1), "print"), <<Variable(P(5, 7), "a")>>, FALSE)),
      Assign(P(6, 3),
        Variable(P(6, 1), "m"),
        Map(P(6, 5), <<MapItem(Literal(P(6, 6), StrV(<<107>>)), Literal(P(6, 11), IntV(1)))>>)),
      Assign(P(7, 3), Variable(P(7, 1), "n"), Variable(P(7, 5), "m")),
      Assign(P(8, 5),
        Subscript(P(8, 2), Variable(P(8, 1), "n"), Literal(P(8, 3), StrV(<<122>>))),
        Literal(P(8, 7), IntV(2))),
      ExpressionStatement(P(9, 1),
        Call(P(9, 6), Variable(P(9, 1), "print"), <<Variable(P(9, 7), "m")>>, FALSE)),
      Assign(P(10, 3), Variable(P(10, 1), "s"), Literal(P(10, 5), IntV(5))),
      Assign(P(11, 3), Variable(P(11, 1), "t"), Variable(P(11, 5), "s")),
      Assign(P(12, 3),
        Variable(P(12, 1), "t"),
        Binary(P(12, 7), Variable(P(12, 5), "t"), "+", Literal(P(12, 9), IntV(1)))),
      ExpressionStatement(P(13, 1),
        Call(P(13, 6),
          Variable(P(13, 1), "print"),
          <<Variable(P(13, 7), "s"), Variable(P(13, 10), "t")>>,
          FALSE))>>

\* func mut(l) {
\*     append(l, 0)
\*     sort(l)
\* }
\* x = [3, 1]
\* y = x
\* mut(y)
\* print(x)
\* y = [4]
\* print(x, y)
Prog_alias_call ==
    <<
      FunctionDefinition(P(1, 1), "mut", <<"l">>, FALSE,
        <<
          ExpressionStatement(P(2, 5),
            Call(P(2, 11),
              Variable(P(2, 5), "append"),
              <<Variable(P(2, 12), "l"), Literal(P(2, 15), IntV(0))>>,
              FALSE)),
          ExpressionStatement(P(3, 5),
            Call(P(3, 9), Variable(P(3, 5), "sort"), <<Variable(P(3, 10), "l")>>, FALSE))>>),
      Assign(P(5, 3),
        Variable(P(5, 1), "x"),
        List(P(5, 5), <<Literal(P(5, 6), IntV(3)), Literal(P(5, 9), IntV(1))>>)),
      Assign(P(6, 3), Variable(P(6, 1), "y"), Variable(P(6, 5), "x")),
      ExpressionStatement(P(7, 1),
        Call(P(7, 4), Variable(P(7, 1), "mut"), <<Variable(P(7, 5), "y")>>, FALSE)),
      ExpressionStatement(P(8, 1),
        Call(P(8, 6), Variable(P(8, 1), "print"), <<Variable(P(8, 7), "x")>>, FALSE)),
      Assign(P(9, 3), Variable(P(9, 1), "y"), List(P(9, 5), <<Literal(P(9, 6), IntV(4))>>)),
      ExpressionStatement(P(10, 1),
        Call(P(10, 6),
          Variable(P(10, 1), "print"),
          <<Variable(P(10, 7), "x"), Variable(P(10, 10), "y")>>,
          FALSE))>>

\* a = [1, 2]
\* b = [3]
\* c = a + b
\* append(c, 4)
\* c[0] = 9
\* a[1] = 7
\* print(a, b, c)
\* e = a + []
\* append(e, 1)
\* print(a, e)
\* m = {"x": 1}
\* n = m + {"y": 2}
\* n.x = 3
\* print(m, n)
Prog_fresh ==
    <<
      Assign(P(1, 3),
        Variable(P(1, 1), "a"),
        List(P(1, 5), <<Literal(P(1, 6), IntV(1)), Literal(P(1, 9), IntV(2))>>)),
      Assign(P(2, 3), Variable(P(2, 1), "b"), List(P(2, 5), <<Literal(P(2, 6), IntV(3))>>)),
      Assign(P(3, 3),
        Variable(P(3, 1), "c"),
        Binary(P(3, 7), Variable(P(3, 5), "a"), "+", Variable(P(3, 9), "b"))),
      ExpressionStatement(P(4, 1),
        Call(P(4, 7),
          Variable(P(4, 1), "append"),
          <<Variable(P(4, 8), "c"), Literal(P(4, 11), IntV(4))>>,
          FALSE)),
      Assign(P(5, 6),
        Subscript(P(5, 2), Variable(P(5, 1), "c"), Literal(P(5, 3), IntV(0))),
        Literal(P(5, 8), IntV(9))),
      Assign(P(6, 6),
        Subscript(P(6, 2), Variable(P(6, 1), "a"), Literal(P(6, 3), IntV(1))),
        Literal(P(6, 8), IntV(7))),
      ExpressionStatement(P(7, 1),
        Call(P(7, 6),
          Variable(P(7, 1), "print"),
          <<Variable(P(7, 7), "a"), Variable(P(7, 10), "b"), Variable(P(7, 13), "c")>>,
          FALSE)),
      Assign(P(8, 3),
        Variable(P(8, 1), "e"),
        Binary(P(8, 7), Variable(P(8, 5), "a"), "+", List(P(8, 9), <<>>))),
      ExpressionStatement(P(9, 1),
        Call(P(9, 7),
          Variable(P(9, 1), "append"),
          <<Variable(P(9, 8), "e"), Literal(P(9, 11), IntV(1))>>,
          FALSE)),
      ExpressionStatement(P(10, 1),
        Call(P(10, 6),
          Variable(P(10, 1), "print"),
          <<Variable(P(10, 7), "a"), Variable(P(10, 10), "e")>>,
          FALSE)),
      Assign(P(11, 3),
        Variable(P(11, 1), "m"),
        Map(P(11, 5), <<MapItem(Literal(P(11, 6), StrV(<<120>>)), Literal(P(11, 11), IntV(1)))>>)),
      Assign(P(12, 3),
        Variable(P(12, 1), "n"),
        Binary(P(12, 7),
          Variable(P(12, 5), "m"),
          "+",
          Map(P(12, 9), <<MapItem(Literal(P(12, 10), StrV(<<121>>)), Literal(P(12, 15), IntV(2)))>>))),
      Assign(P(13, 5),
        Subscript(P(13, 2), Variable(P(13, 1), "n"), Literal(P(13, 3), StrV(<<120>>))),
        Literal(P(13, 7), IntV(3))),
      ExpressionStatement(P(14, 1),
        Call(P(14, 6),
          Variable(P(14, 1), "print"),
          <<Variable(P(14, 7), "m"), Variable(P(14, 10), "n")>>,
          FALSE))>>

\* a = [1, 2, 3]
\* d = slice(a, 1, 3)
\* d[0] = 5
\* a[2] = 8
\* append(d, 6)
\* print(a, d)
Prog_fresh_slice ==
    <<
      Assign(P(1, 3),
        Variable(P(1, 1), "a"),
        List(P(1, 5),
          <<Literal(P(1, 6), IntV(1)), Literal(P(1, 9), IntV(2)), Literal(P(1, 12), IntV(3))>>)),
      Assign(P(2, 3),
        Variable(P(2, 1), "d"),
        Call(P(2, 10),
          Variable(P(2, 5), "slice"),
          <<Variable(P(2, 11), "a"), Literal(P(2, 14), IntV(1)), Literal(P(2, 17), IntV(3))>>,
          FALSE)),
      Assign(P(3, 6),
        Subscript(P(3, 2), Variable(P(3, 1), "d"), Literal(P(3, 3), IntV(0))),
        Literal(P(3, 8), IntV(5))),
      Assign(P(4, 6),
        Subscript(P(4, 2), Variable(P(4, 1), "a"), Literal(P(4, 3), IntV(2))),
        Literal(P(4, 8), IntV(8))),
      ExpressionStatement(P(5, 1),
        Call(P(5, 7),
          Variable(P(5, 1), "append"),
          <<Variable(P(5, 8), "d"), Literal(P(5, 11), IntV(6))>>,
          FALSE)),
      ExpressionStatement(P(6, 1),
        Call(P(6, 6),
          Variable(P(6, 1), "print"),
          <<Variable(P(6, 7), "a"), Variable(P(6, 10), "d")>>,
          FALSE))>>

\* print(1)
\* return 5
\* print(2)
Prog_top_return ==
    <<
      ExpressionStatement(P(1, 1),
        Call(P(1, 6), Variable(P(1, 1), "print"), <<Literal(P(1, 7), IntV(1))>>, FALSE)),
      Return(P(2, 1), Literal(P(2, 8), IntV(5))),
      ExpressionStatement(P(3, 1),
        Call(P(3, 6), Variable(P(3, 1), "print"), <<Literal(P(3, 7), IntV(2))>>, FALSE))>>

\* for i in range(3) {
\*     if i == 1 {
\*         while true { return i }
\*     }
\*     print(i)
\* }
\* print("no")
Prog_top_return_nested ==
    <<
      For(P(1, 1), "i",
        Call(P(1, 15), Variable(P(1, 10), "range"), <<Literal(P(1, 16), IntV(3))>>, FALSE),
        <<
          If(P(2, 5),
            Binary(P(2, 10), Variable(P(2, 8), "i"), "==", Literal(P(2, 13), IntV(1))),
            <<
              While(P(3, 9),
                Literal(P(3, 15), BoolV(TRUE)),
                <<Return(P(3, 22), Variable(P(3, 29), "i"))>>)>>,
            <<>>),
          ExpressionStatement(P(5, 5),
            Call(P(5, 10), Variable(P(5, 5), "print"), <<Variable(P(5, 11), "i")>>, FALSE))>>),
      ExpressionStatement(P(7, 1),
        Call(P(7, 6), Variable(P(7, 1), "print"), <<Literal(P(7, 7), StrV(<<110, 111>>))>>, FALSE))>>

\* func inner(x) {
\*     print("in")
\*     return x / 0
\* }
\* func outer(x) {
\*     r = inner(x)
\*     print("unreached")
\*     return r
\* }
\* print("start")
\* y = outer(1)
\* print("end")
Prog_error_depth ==
    <<
      FunctionDefinition(P(1, 1), "inner", <<"x">>, FALSE,
        <<
          ExpressionStatement(P(2, 5),
            Call(P(2, 10),
              Variable(P(2, 5), "print"),
              <<Literal(P(2, 11), StrV(<<105, 110>>))>>,
              FALSE)),
          Return(P(3, 5),
            Binary(P(3, 14), Variable(P(3, 12), "x"), "/", Literal(P(3, 16), IntV(0))))>>),
      FunctionDefinition(P(5, 1), "outer", <<"x">>, FALSE,
        <<
          Assign(P(6, 7),
            Variable(P(6, 5), "r"),
            Call(P(6, 14), Variable(P(6, 9), "inner"), <<Variable(P(6, 15), "x")>>, FALSE)),
          ExpressionStatement(P(7, 5),
            Call(P(7, 10),
              Variable(P(7, 5), "print"),
              <<Literal(P(7, 11), StrV(<<117, 110, 114, 101, 97, 99, 104, 101, 100>>))>>,
              FALSE)),
          Return(P(8, 5), Variable(P(8, 12), "r"))>>),
      ExpressionStatement(P(10, 1),
        Call(P(10, 6),
          Variable(P(10, 1), "print"),
          <<Literal(P(10, 7), StrV(<<115, 116, 97, 114, 116>>))>>,
          FALSE)),
      Assign(P(11, 3),
        Variable(P(11, 1), "y"),
        Call(P(11, 10), Variable(P(11, 5), "outer"), <<Literal(P(11, 11), IntV(1))>>, FALSE)),
      ExpressionStatement(P(12, 1),
        Call(P(12, 6),
          Variable(P(12, 1), "print"),
          <<Literal(P(12, 7), StrV(<<101, 110, 100>>))>>,
          FALSE))>>

\* func f() { return a }
\* f()
\* print("end")
Prog_error_name ==
    <<
      FunctionDefinition(P(1, 1), "f", <<>>, FALSE, <<Return(P(1, 12), Variable(P(1, 19), "a"))>>),
      ExpressionStatement(P(2, 1), Call(P(2, 2), Variable(P(2, 1), "f"), <<>>, FALSE)),
      ExpressionStatement(P(3, 1),
        Call(P(3, 6),
          Variable(P(3, 1), "print"),
          <<Literal(P(3, 7), StrV(<<101, 110, 100>>))>>,
          FALSE))>>

\* func f(l) {
\*     for v in l {
\*         if v > 1 { print(v + "a") }
\*     }
\* }
\* f([1, 2, 3])
\* print("end")
Prog_error_type ==
    <<
      FunctionDefinition(P(1, 1), "f", <<"l">>, FALSE,
        <<
          For(P(2, 5), "v",
            Variable(P(2, 14), "l"),
            <<
              If(P(3, 9),
                Binary(P(3, 14), Variable(P(3, 12), "v"), ">", Literal(P(3, 16), IntV(1))),
                <<
                  ExpressionStatement(P(3, 20),
                    Call(P(3, 25),
                      Variable(P(3, 20), "print"),
                      <<
                        Binary(P(3, 28),
                          Variable(P(3, 26), "v"),
                          "+",
                          Literal(P(3, 30), StrV(<<97>>)))>>,
                      FALSE))>>,
                <<>>)>>)>>),
      ExpressionStatement(P(6, 1),
        Call(P(6, 2),
          Variable(P(6, 1), "f"),
          <<
            List(P(6, 3),
              <<Literal(P(6, 4), IntV(1)), Literal(P(6, 7), IntV(2)), Literal(P(6, 10), IntV(3))>>)>>,
          FALSE)),
      ExpressionStatement(P(7, 1),
        Call(P(7, 6),
          Variable(P(7, 1), "print"),
          <<Literal(P(7, 7), StrV(<<101, 110, 100>>))>>,
          FALSE))>>

\* f = 1234
\* f()
Prog_error_call ==
    <<
      Assign(P(1, 3), Variable(P(1, 1), "f"), Literal(P(1, 5), IntV(1234))),
      ExpressionStatement(P(2, 1), Call(P(2, 2), Variable(P(2, 1), "f"), <<>>, FALSE))>>

\* n = [2, 1]
\* sort(n, func(x) { return x.y })
\* print(n)
Prog_error_key ==
    <<
      Assign(P(1, 3),
        Variable(P(1, 1), "n"),
        List(P(1, 5), <<Literal(P(1, 6), IntV(2)), Literal(P(1, 9), IntV(1))>>)),
      ExpressionStatement(P(2, 1),
        Call(P(2, 5),
          Variable(P(2, 1), "sort"),
          <<
            Variable(P(2, 6), "n"),
            FunctionExpression(P(2, 9), <<"x">>, FALSE,
              <<
                Return(P(2, 19),
                  Subscript(P(2, 27), Variable(P(2, 26), "x"), Literal(P(2, 28), StrV(<<121>>))))>>)>>,
          FALSE)),
      ExpressionStatement(P(3, 1),
        Call(P(3, 6), Variable(P(3, 1), "print"), <<Variable(P(3, 7), "n")>>, FALSE))>>

\* func f(a) { }
\* f(1, 2)
Prog_error_arity ==
    <<
      FunctionDefinition(P(1, 1), "f", <<"a">>, FALSE, <<>>),
      ExpressionStatement(P(2, 1),
        Call(P(2, 2),
          Variable(P(2, 1), "f"),
          <<Literal(P(2, 3), IntV(1)), Literal(P(2, 6), IntV(2))>>,
          FALSE))>>

\* if not (1 < 2 and true or false) { } else { print(-1) }
\* while 1 { }
Prog_error_conditions ==
    <<
      If(P(1, 1),
        Unary(P(1, 4), "not",
          Binary(P(1, 24),
            Binary(P(1, 15),
              Binary(P(1, 11), Literal(P(1, 9), IntV(1)), "<", Literal(P(1, 13), IntV(2))),
              "and",
              Literal(P(1, 19), BoolV(TRUE))),
            "or",
            Literal(P(1, 27), BoolV(FALSE)))),
        <<>>,
        <<
          ExpressionStatement(P(1, 45),
            Call(P(1, 50),
              Variable(P(1, 45), "print"),
              <<Unary(P(1, 51), "-", Literal(P(1, 52), IntV(1)))>>,
              FALSE))>>),
      While(P(2, 1), Literal(P(2, 7), IntV(1)), <<>>)>>

\* m = {"a": 1, 2: 3}
Prog_error_misc ==
    <<
      Assign(P(1, 3),
        Variable(P(1, 1), "m"),
        Map(P(1, 5),
          <<
            MapItem(Literal(P(1, 6), StrV(<<97>>)), Literal(P(1, 11), IntV(1))),
            MapItem(Literal(P(1, 14), IntV(2)), Literal(P(1, 17), IntV(3)))>>))>>

\* for x in 5 { }
Prog_error_iter ==
    <<For(P(1, 1), "x", Literal(P(1, 10), IntV(5)), <<>>)>>

\* print(false and 1, true or 1)
\* print(true and 1)
Prog_error_and ==
    <<
      ExpressionStatement(P(1, 1),
        Call(P(1, 6),
          Variable(P(1, 1), "print"),
          <<
            Binary(P(1, 13), Literal(P(1, 7), BoolV(FALSE)), "and", Literal(P(1, 17), IntV(1))),
            Binary(P(1, 25), Literal(P(1, 20), BoolV(TRUE)), "or", Literal(P(1, 28), IntV(1)))>>,
          FALSE)),
      ExpressionStatement(P(2, 1),
        Call(P(2, 6),
          Variable(P(2, 1), "print"),
          <<Binary(P(2, 12), Literal(P(2, 7), BoolV(TRUE)), "and", Literal(P(2, 16), IntV(1)))>>,
          FALSE))>>

\* n = [3, 1, 2]
\* sort(n, func(x) { return 0 - x })
\* print(n)
\* sort(n)
\* print(n)
\* sort(n, str)
Prog_sort_key ==
    <<
      Assign(P(1, 3),
        Variable(P(1, 1), "n"),
        List(P(1, 5),
          <<Literal(P(1, 6), IntV(3)), Literal(P(1, 9), IntV(1)), Literal(P(1, 12), IntV(2))>>)),
      ExpressionStatement(P(2, 1),
        Call(P(2, 5),
          Variable(P(2, 1), "sort"),
          <<
            Variable(P(2, 6), "n"),
            FunctionExpression(P(2, 9), <<"x">>, FALSE,
              <<
                Return(P(2, 19),
                  Binary(P(2, 28), Literal(P(2, 26), IntV(0)), "-", Variable(P(2, 30), "x")))>>)>>,
          FALSE)),
      ExpressionStatement(P(3, 1),
        Call(P(3, 6), Variable(P(3, 1), "print"), <<Variable(P(3, 7), "n")>>, FALSE)),
      ExpressionStatement(P(4, 1),
        Call(P(4, 5), Variable(P(4, 1), "sort"), <<Variable(P(4, 6), "n")>>, FALSE)),
      ExpressionStatement(P(5, 1),
        Call(P(5, 6), Variable(P(5, 1), "print"), <<Variable(P(5, 7), "n")>>, FALSE)),
      ExpressionStatement(P(6, 1),
        Call(P(6, 5),
          Variable(P(6, 1), "sort"),
          <<Variable(P(6, 6), "n"), Variable(P(6, 9), "str")>>,
          FALSE))>>

\* func add(nums...) {
\*     sum = 0
\*     for n in nums { sum = sum + n }
\*     return sum
\* }
\* print(add(), add(42), add([3, 4]...))
\* print("ab"...)
Prog_variadic ==
    <<
      FunctionDefinition(P(1, 1), "add", <<"nums">>, TRUE,
        <<
          Assign(P(2, 9), Variable(P(2, 5), "sum"), Literal(P(2, 11), IntV(0))),
          For(P(3, 5), "n",
            Variable(P(3, 14), "nums"),
            <<
              Assign(P(3, 25),
                Variable(P(3, 21), "sum"),
                Binary(P(3, 31), Variable(P(3, 27), "sum"), "+", Variable(P(3, 33), "n")))>>),
          Return(P(4, 5), Variable(P(4, 12), "sum"))>>),
      ExpressionStatement(P(6, 1),
        Call(P(6, 6),
          Variable(P(6, 1), "print"),
          <<
            Call(P(6, 10), Variable(P(6, 7), "add"), <<>>, FALSE),
            Call(P(6, 17), Variable(P(6, 14), "add"), <<Literal(P(6, 18), IntV(42))>>, FALSE),
            Call(P(6, 26),
              Variable(P(6, 23), "add"),
              <<List(P(6, 27), <<Literal(P(6, 28), IntV(3)), Literal(P(6, 31), IntV(4))>>)>>,
              TRUE)>>,
          FALSE)),
      ExpressionStatement(P(7, 1),
        Call(P(7, 6), Variable(P(7, 1), "print"), <<Literal(P(7, 7), StrV(<<97, 98>>))>>, TRUE))>>

\* func f(a, b, rest...) { }
\* f()
Prog_variadic_crash ==
    <<
      FunctionDefinition(P(1, 1), "f", <<"a", "b", "rest">>, TRUE, <<>>),
      ExpressionStatement(P(2, 1), Call(P(2, 2), Variable(P(2, 1), "f"), <<>>, FALSE))>>

\* m = {"a": 1, "b": 2}
\* for k in m { print(k, m[k]) }
\* for c in "hi" { print(c) }
\* i = 0
\* while i < 2 { i = i + 1 }
\* if i == 3 { print("three") } else if i == 2 { print("two") }
\* if i == 0 { print("zero") }
Prog_iterate ==
    <<
      Assign(P(1, 3),
        Variable(P(1, 1), "m"),
        Map(P(1, 5),
          <<
            MapItem(Literal(P(1, 6), StrV(<<97>>)), Literal(P(1, 11), IntV(1))),
            MapItem(Literal(P(1, 14), StrV(<<98>>)), Literal(P(1, 19), IntV(2)))>>)),
      For(P(2, 1), "k",
        Variable(P(2, 10), "m"),
        <<
          ExpressionStatement(P(2, 14),
            Call(P(2, 19),
              Variable(P(2, 14), "print"),
              <<
                Variable(P(2, 20), "k"),
                Subscript(P(2, 24), Variable(P(2, 23), "m"), Variable(P(2, 25), "k"))>>,
              FALSE))>>),
      For(P(3, 1), "c",
        Literal(P(3, 10), StrV(<<104, 105>>)),
        <<
          ExpressionStatement(P(3, 17),
            Call(P(3, 22), Variable(P(3, 17), "print"), <<Variable(P(3, 23), "c")>>, FALSE))>>),
      Assign(P(4, 3), Variable(P(4, 1), "i"), Literal(P(4, 5), IntV(0))),
      While(P(5, 1),
        Binary(P(5, 9), Variable(P(5, 7), "i"), "<", Literal(P(5, 11), IntV(2))),
        <<
          Assign(P(5, 17),
            Variable(P(5, 15), "i"),
            Binary(P(5, 21), Variable(P(5, 19), "i"), "+", Literal(P(5, 23), IntV(1))))>>),
      If(P(6, 1),
        Binary(P(6, 6), Variable(P(6, 4), "i"), "==", Literal(P(6, 9), IntV(3))),
        <<
          ExpressionStatement(P(6, 13),
            Call(P(6, 18),
              Variable(P(6, 13), "print"),
              <<Literal(P(6, 19), StrV(<<116, 104, 114, 101, 101>>))>>,
              FALSE))>>,
        <<
          If(P(6, 35),
            Binary(P(6, 40), Variable(P(6, 38), "i"), "==", Literal(P(6, 43), IntV(2))),
            <<
              ExpressionStatement(P(6, 47),
                Call(P(6, 52),
                  Variable(P(6, 47), "print"),
                  <<Literal(P(6, 53), StrV(<<116, 119, 111>>))>>,
                  FALSE))>>,
            <<>>)>>),
      If(P(7, 1),
        Binary(P(7, 6), Variable(P(7, 4), "i"), "==", Literal(P(7, 9), IntV(0))),
        <<
          ExpressionStatement(P(7, 13),
            Call(P(7, 18),
              Variable(P(7, 13), "print"),
              <<Literal(P(7, 19), StrV(<<122, 101, 114, 111>>))>>,
              FALSE))>>,
        <<>>)>>

\* func loop(n) { return loop(n + 1) }
\* loop(0)
Prog_forever ==
    <<
      FunctionDefinition(P(1, 1), "loop", <<"n">>, FALSE,
        <<
          Return(P(1, 16),
            Call(P(1, 27),
              Variable(P(1, 23), "loop"),
              <<Binary(P(1, 30), Variable(P(1, 28), "n"), "+", Literal(P(1, 32), IntV(1)))>>,
              FALSE))>>),
      ExpressionStatement(P(2, 1),
        Call(P(2, 5), Variable(P(2, 1), "loop"), <<Literal(P(2, 6), IntV(0))>>, FALSE))>>

\* func f(a, rest...) {
\*     append(rest, 9)
\*     rest[0] = 7
\*     return rest
\* }
\* l = [1, 2, 3]
\* print(f(l...), l)
\* print(f(0))
Prog_variadic_mutate ==
    <<
      FunctionDefinition(P(1, 1), "f", <<"a", "rest">>, TRUE,
        <<
          ExpressionStatement(P(2, 5),
            Call(P(2, 11),
              Variable(P(2, 5), "append"),
              <<Variable(P(2, 12), "rest"), Literal(P(2, 18), IntV(9))>>,
              FALSE)),
          Assign(P(3, 13),
            Subscript(P(3, 9), Variable(P(3, 5), "rest"), Literal(P(3, 10), IntV(0))),
            Literal(P(3, 15), IntV(7))),
          Return(P(4, 5), Variable(P(4, 12), "rest"))>>),
      Assign(P(6, 3),
        Variable(P(6, 1), "l"),
        List(P(6, 5),
          <<Literal(P(6, 6), IntV(1)), Literal(P(6, 9), IntV(2)), Literal(P(6, 12), IntV(3))>>)),
      ExpressionStatement(P(7, 1),
        Call(P(7, 6),
          Variable(P(7, 1), "print"),
          <<
            Call(P(7, 8), Variable(P(7, 7), "f"), <<Variable(P(7, 9), "l")>>, TRUE),
            Variable(P(7, 16), "l")>>,
          FALSE)),
      ExpressionStatement(P(8, 1),
        Call(P(8, 6),
          Variable(P(8, 1), "print"),
          <<Call(P(8, 8), Variable(P(8, 7), "f"), <<Literal(P(8, 9), IntV(0))>>, FALSE)>>,
          FALSE))>>

\* func t(x, r) {
\*     print(x)
\*     return r
\* }
\* print(t(1, true) and t(2, false))
\* print(t(3, false) and t(4, true))
\* print(t(5, true) or t(6, false))
\* print(t(7, false) or t(8, true))
Prog_short_circuit ==
    <<
      FunctionDefinition(P(1, 1), "t", <<"x", "r">>, FALSE,
        <<
          ExpressionStatement(P(2, 5),
            Call(P(2, 10), Variable(P(2, 5), "print"), <<Variable(P(2, 11), "x")>>, FALSE)),
          Return(P(3, 5), Variable(P(3, 12), "r"))>>),
      ExpressionStatement(P(5, 1),
        Call(P(5, 6),
          Variable(P(5, 1), "print"),
          <<
            Binary(P(5, 18),
              Call(P(5, 8),
                Variable(P(5, 7), "t"),
                <<Literal(P(5, 9), IntV(1)), Literal(P(5, 12), BoolV(TRUE))>>,
                FALSE),
              "and",
              Call(P(5, 23),
                Variable(P(5, 22), "t"),
                <<Literal(P(5, 24), IntV(2)), Literal(P(5, 27), BoolV(FALSE))>>,
                FALSE))>>,
          FALSE)),
      ExpressionStatement(P(6, 1),
        Call(P(6, 6),
          Variable(P(6, 1), "print"),
          <<
            Binary(P(6, 19),
              Call(P(6, 8),
                Variable(P(6, 7), "t"),
                <<Literal(P(6, 9), IntV(3)), Literal(P(6, 12), BoolV(FALSE))>>,
                FALSE),
              "and",
              Call(P(6, 24),
                Variable(P(6, 23), "t"),
                <<Literal(P(6, 25), IntV(4)), Literal(P(6, 28), BoolV(TRUE))>>,
                FALSE))>>,
          FALSE)),
      ExpressionStatement(P(7, 1),
        Call(P(7, 6),
          Variable(P(7, 1), "print"),
          <<
            Binary(P(7, 18),
              Call(P(7, 8),
                Variable(P(7, 7), "t"),
                <<Literal(P(7, 9), IntV(5)), Literal(P(7, 12), BoolV(TRUE))>>,
                FALSE),
              "or",
              Call(P(7, 22),
                Variable(P(7, 21), "t"),
                <<Literal(P(7, 23), IntV(6)), Literal(P(7, 26), BoolV(FALSE))>>,
                FALSE))>>,
          FALSE)),
      ExpressionStatement(P(8, 1),
        Call(P(8, 6),
          Variable(P(8, 1), "print"),
          <<
            Binary(P(8, 19),
              Call(P(8, 8),
                Variable(P(8, 7), "t"),
                <<Literal(P(8, 9), IntV(7)), Literal(P(8, 12), BoolV(FALSE))>>,
                FALSE),
              "or",
              Call(P(8, 23),
                Variable(P(8, 22), "t"),
                <<Literal(P(8, 24), IntV(8)), Literal(P(8, 27), BoolV(TRUE))>>,
                FALSE))>>,
          FALSE))>>

\* func t(x, r) {
\*     print(x)
\*     return r
\* }
\* print(t(1, false) or t(2, nil))
Prog_error_and_right ==
    <<
      FunctionDefinition(P(1, 1), "t", <<"x", "r">>, FALSE,
        <<
          ExpressionStatement(P(2, 5),
            Call(P(2, 10), Variable(P(2, 5), "print"), <<Variable(P(2, 11), "x")>>, FALSE)),
          Return(P(3, 5), Variable(P(3, 12), "r"))>>),
      ExpressionStatement(P(5, 1),
        Call(P(5, 6),
          Variable(P(5, 1), "print"),
          <<
            Binary(P(5, 19),
              Call(P(5, 8),
                Variable(P(5, 7), "t"),
                <<Literal(P(5, 9), IntV(1)), Literal(P(5, 12), BoolV(FALSE))>>,
                FALSE),
              "or",
              Call(P(5, 23),
                Variable(P(5, 22), "t"),
                <<Literal(P(5, 24), IntV(2)), Literal(P(5, 27), NilV)>>,
                FALSE))>>,
          FALSE))>>

\* func t(x, r) {
\*     print(x)
\*     return r
\* }
\* print(t(1, 0) or t(2, true))
Prog_error_or_left ==
    <<
      FunctionDefinition(P(1, 1), "t", <<"x", "r">>, FALSE,
        <<
          ExpressionStatement(P(2, 5),
            Call(P(2, 10), Variable(P(2, 5), "print"), <<Variable(P(2, 11), "x")>>, FALSE)),
          Return(P(3, 5), Variable(P(3, 12), "r"))>>),
      ExpressionStatement(P(5, 1),
        Call(P(5, 6),
          Variable(P(5, 1), "print"),
          <<
            Binary(P(5, 15),
              Call(P(5, 8),
                Variable(P(5, 7), "t"),
                <<Literal(P(5, 9), IntV(1)), Literal(P(5, 12), IntV(0))>>,
                FALSE),
              "or",
              Call(P(5, 19),
                Variable(P(5, 18), "t"),
                <<Literal(P(5, 20), IntV(2)), Literal(P(5, 23), BoolV(TRUE))>>,
                FALSE))>>,
          FALSE))>>

\* x = "old"
\* for x in [] { print("never") }
\* print(x)
\* for x in [1, 2, 3] { print(x) }
\* print(x)
\* func g() {
\*     for x in {"k": 1} { }
\*     return x
\* }
\* print(g(), x)
\* func f() {
\*     for y in "ab" { }
\*     print(y)
\*     for z in "" { }
\*     print(z)
\* }
\* f()
Prog_for_variable ==
    <<
      Assign(P(1, 3), Variable(P(1, 1), "x"), Literal(P(1, 5), StrV(<<111, 108, 100>>))),
      For(P(2, 1), "x",
        List(P(2, 10), <<>>),
        <<
          ExpressionStatement(P(2, 15),
            Call(P(2, 20),
              Variable(P(2, 15), "print"),
              <<Literal(P(2, 21), StrV(<<110, 101, 118, 101, 114>>))>>,
              FALSE))>>),
      ExpressionStatement(P(3, 1),
        Call(P(3, 6), Variable(P(3, 1), "print"), <<Variable(P(3, 7), "x")>>, FALSE)),
      For(P(4, 1), "x",
        List(P(4, 10),
          <<Literal(P(4, 11), IntV(1)), Literal(P(4, 14), IntV(2)), Literal(P(4, 17), IntV(3))>>),
        <<
          ExpressionStatement(P(4, 22),
            Call(P(4, 27), Variable(P(4, 22), "print"), <<Variable(P(4, 28), "x")>>, FALSE))>>),
      ExpressionStatement(P(5, 1),
        Call(P(5, 6), Variable(P(5, 1), "print"), <<Variable(P(5, 7), "x")>>, FALSE)),
      FunctionDefinition(P(6, 1), "g", <<>>, FALSE,
        <<
          For(P(7, 5), "x",
            Map(P(7, 14), <<MapItem(Literal(P(7, 15), StrV(<<107>>)), Literal(P(7, 20), IntV(1)))>>),
            <<>>),
          Return(P(8, 5), Variable(P(8, 12), "x"))>>),
      ExpressionStatement(P(10, 1),
        Call(P(10, 6),
          Variable(P(10, 1), "print"),
          <<Call(P(10, 8), Variable(P(10, 7), "g"), <<>>, FALSE), Variable(P(10, 12), "x")>>,
          FALSE)),
      FunctionDefinition(P(11, 1), "f", <<>>, FALSE,
        <<
          For(P(12, 5), "y", Literal(P(12, 14), StrV(<<97, 98>>)), <<>>),
          ExpressionStatement(P(13, 5),
            Call(P(13, 10), Variable(P(13, 5), "print"), <<Variable(P(13, 11), "y")>>, FALSE)),
          For(P(14, 5), "z", Literal(P(14, 14), StrV(<<>>)), <<>>),
          ExpressionStatement(P(15, 5),
            Call(P(15, 10), Variable(P(15, 5), "print"), <<Variable(P(15, 11), "z")>>, FALSE))>>),
      ExpressionStatement(P(17, 1), Call(P(17, 2), Variable(P(17, 1), "f"), <<>>, FALSE))>>

\* l = [[2, "a"], [1, "b"], [2, "c"], [1, "d"]]
\* sort(l, func(p) {
\*     print(p[1])
\*     return p[0]
\* })
\* print(l)
\* e = [[1], [0], [1]]
\* sort(e)
\* print(e)
\* s = ["b", "c", "a"]
\* sort(s, len)
\* print(s)
Prog_sort_stable ==
    <<
      Assign(P(1, 3),
        Variable(P(1, 1), "l"),
        List(P(1, 5),
          <<
            List(P(1, 6), <<Literal(P(1, 7), IntV(2)), Literal(P(1, 10), StrV(<<97>>))>>),
            List(P(1, 16), <<Literal(P(1, 17), IntV(1)), Literal(P(1, 20), StrV(<<98>>))>>),
            List(P(1, 26), <<Literal(P(1, 27), IntV(2)), Literal(P(1, 30), StrV(<<99>>))>>),
            List(P(1, 36), <<Literal(P(1, 37), IntV(1)), Literal(P(1, 40), StrV(<<100>>))>>)>>)),
      ExpressionStatement(P(2, 1),
        Call(P(2, 5),
          Variable(P(2, 1), "sort"),
          <<
            Variable(P(2, 6), "l"),
            FunctionExpression(P(2, 9), <<"p">>, FALSE,
              <<
                ExpressionStatement(P(3, 5),
                  Call(P(3, 10),
                    Variable(P(3, 5), "print"),
                    <<Subscript(P(3, 12), Variable(P(3, 11), "p"), Literal(P(3, 13), IntV(1)))>>,
                    FALSE)),
                Return(P(4, 5),
                  Subscript(P(4, 13), Variable(P(4, 12), "p"), Literal(P(4, 14), IntV(0))))>>)>>,
          FALSE)),
      ExpressionStatement(P(6, 1),
        Call(P(6, 6), Variable(P(6, 1), "print"), <<Variable(P(6, 7), "l")>>, FALSE)),
      Assign(P(7, 3),
        Variable(P(7, 1), "e"),
        List(P(7, 5),
          <<
            List(P(7, 6), <<Literal(P(7, 7), IntV(1))>>),
            List(P(7, 11), <<Literal(P(7, 12), IntV(0))>>),
            List(P(7, 16), <<Literal(P(7, 17), IntV(1))>>)>>)),
      ExpressionStatement(P(8, 1),
        Call(P(8, 5), Variable(P(8, 1), "sort"), <<Variable(P(8, 6), "e")>>, FALSE)),
      ExpressionStatement(P(9, 1),
        Call(P(9, 6), Variable(P(9, 1), "print"), <<Variable(P(9, 7), "e")>>, FALSE)),
      Assign(P(10, 3),
        Variable(P(10, 1), "s"),
        List(P(10, 5),
          <<
            Literal(P(10, 6), StrV(<<98>>)),
            Literal(P(10, 11), StrV(<<99>>)),
            Literal(P(10, 16), StrV(<<97>>))>>)),
      ExpressionStatement(P(11, 1),
        Call(P(11, 5),
          Variable(P(11, 1), "sort"),
          <<Variable(P(11, 6), "s"), Variable(P(11, 9), "len")>>,
          FALSE)),
      ExpressionStatement(P(12, 1),
        Call(P(12, 6), Variable(P(12, 1), "print"), <<Variable(P(12, 7), "s")>>, FALSE))>>

\* one = [5]
\* sort(one, func(x) {
\*     print("key", x)
\*     return x
\* })
\* print(one, sort(one, 5), sort([], 5))
Prog_sort_one ==
    <<
      Assign(P(1, 5), Variable(P(1, 1), "one"), List(P(1, 7), <<Literal(P(1, 8), IntV(5))>>)),
      ExpressionStatement(P(2, 1),
        Call(P(2, 5),
          Variable(P(2, 1), "sort"),
          <<
            Variable(P(2, 6), "one"),
            FunctionExpression(P(2, 11), <<"x">>, FALSE,
              <<
                ExpressionStatement(P(3, 5),
                  Call(P(3, 10),
                    Variable(P(3, 5), "print"),
                    <<Literal(P(3, 11), StrV(<<107, 101, 121>>)), Variable(P(3, 18), "x")>>,
                    FALSE)),
                Return(P(4, 5), Variable(P(4, 12), "x"))>>)>>,
          FALSE)),
      ExpressionStatement(P(6, 1),
        Call(P(6, 6),
          Variable(P(6, 1), "print"),
          <<
            Variable(P(6, 7), "one"),
            Call(P(6, 16),
              Variable(P(6, 12), "sort"),
              <<Variable(P(6, 17), "one"), Literal(P(6, 22), IntV(5))>>,
              FALSE),
            Call(P(6, 30),
              Variable(P(6, 26), "sort"),
              <<List(P(6, 31), <<>>), Literal(P(6, 35), IntV(5))>>,
              FALSE)>>,
          FALSE))>>

\* print({"a": 1} == {"a": 1}, {"a": 1} == {"a": 2}, {"a": 1} == {"b": 1}, {} == {})
\* print({"a": nil, "b": [1]} == {"b": [1], "a": nil}, {"a": nil} != {"a": nil})
\* print({"a": nil} == {"b": nil})
Prog_map_equal ==
    <<
      ExpressionStatement(P(1, 1),
        Call(P(1, 6),
          Variable(P(1, 1), "print"),
          <<
            Binary(P(1, 16),
              Map(P(1, 7), <<MapItem(Literal(P(1, 8), StrV(<<97>>)), Literal(P(1, 13), IntV(1)))>>),
              "==",
              Map(P(1, 19),
                <<MapItem(Literal(P(1, 20), StrV(<<97>>)), Literal(P(1, 25), IntV(1)))>>)),
            Binary(P(1, 38),
              Map(P(1, 29),
                <<MapItem(Literal(P(1, 30), StrV(<<97>>)), Literal(P(1, 35), IntV(1)))>>),
              "==",
              Map(P(1, 41),
                <<MapItem(Literal(P(1, 42), StrV(<<97>>)), Literal(P(1, 47), IntV(2)))>>)),
            Binary(P(1, 60),
              Map(P(1, 51),
                <<MapItem(Literal(P(1, 52), StrV(<<97>>)), Literal(P(1, 57), IntV(1)))>>),
              "==",
              Map(P(1, 63),
                <<MapItem(Literal(P(1, 64), StrV(<<98>>)), Literal(P(1, 69), IntV(1)))>>)),
            Binary(P(1, 76), Map(P(1, 73), <<>>), "==", Map(P(1, 79), <<>>))>>,
          FALSE)),
      ExpressionStatement(P(2, 1),
        Call(P(2, 6),
          Variable(P(2, 1), "print"),
          <<
            Binary(P(2, 28),
              Map(P(2, 7),
                <<
                  MapItem(Literal(P(2, 8), StrV(<<97>>)), Literal(P(2, 13), NilV)),
                  MapItem(
                    Literal(P(2, 18), StrV(<<98>>)),
                    List(P(2, 23), <<Literal(P(2, 24), IntV(1))>>))>>),
              "==",
              Map(P(2, 31),
                <<
                  MapItem(
                    Literal(P(2, 32), StrV(<<98>>)),
                    List(P(2, 37), <<Literal(P(2, 38), IntV(1))>>)),
                  MapItem(Literal(P(2, 42), StrV(<<97>>)), Literal(P(2, 47), NilV))>>)),
            Binary(P(2, 64),
              Map(P(2, 53), <<MapItem(Literal(P(2, 54), StrV(<<97>>)), Literal(P(2, 59), NilV))>>),
              "!=",
              Map(P(2, 67), <<MapItem(Literal(P(2, 68), StrV(<<97>>)), Literal(P(2, 73), NilV))>>))>>,
          FALSE)),
      ExpressionStatement(P(3, 1),
        Call(P(3, 6),
          Variable(P(3, 1), "print"),
          <<
            Binary(P(3, 18),
              Map(P(3, 7), <<MapItem(Literal(P(3, 8), StrV(<<97>>)), Literal(P(3, 13), NilV))>>),
              "==",
              Map(P(3, 21), <<MapItem(Literal(P(3, 22), StrV(<<98>>)), Literal(P(3, 27), NilV))>>))>>,
          FALSE))>>

\* func f() { }
\* g = f
\* func h() { }
\* print(f == g, f == h, f != h, f in [h, g], find([h, f], g), f == len, len != f)
\* print(len == len)
Prog_function_equal ==
    <<
      FunctionDefinition(P(1, 1), "f", <<>>, FALSE, <<>>),
      Assign(P(2, 3), Variable(P(2, 1), "g"), Variable(P(2, 5), "f")),
      FunctionDefinition(P(3, 1), "h", <<>>, FALSE, <<>>),
      ExpressionStatement(P(4, 1),
        Call(P(4, 6),
          Variable(P(4, 1), "print"),
          <<
            Binary(P(4, 9), Variable(P(4, 7), "f"), "==", Variable(P(4, 12), "g")),
            Binary(P(4, 17), Variable(P(4, 15), "f"), "==", Variable(P(4, 20), "h")),
            Binary(P(4, 25), Variable(P(4, 23), "f"), "!=", Variable(P(4, 28), "h")),
            Binary(P(4, 33),
              Variable(P(4, 31), "f"),
              "in",
              List(P(4, 36), <<Variable(P(4, 37), "h"), Variable(P(4, 40), "g")>>)),
            Call(P(4, 48),
              Variable(P(4, 44), "find"),
              <<
                List(P(4, 49), <<Variable(P(4, 50), "h"), Variable(P(4, 53), "f")>>),
                Variable(P(4, 57), "g")>>,
              FALSE),
            Binary(P(4, 63), Variable(P(4, 61), "f"), "==", Variable(P(4, 66), "len")),
            Binary(P(4, 75), Variable(P(4, 71), "len"), "!=", Variable(P(4, 78), "f"))>>,
          FALSE)),
      ExpressionStatement(P(5, 1),
        Call(P(5, 6),
          Variable(P(5, 1), "print"),
          <<Binary(P(5, 11), Variable(P(5, 7), "len"), "==", Variable(P(5, 14), "len"))>>,
          FALSE))>>

\* print(len in [1, print])
Prog_function_in ==
    <<
      ExpressionStatement(P(1, 1),
        Call(P(1, 6),
          Variable(P(1, 1), "print"),
          <<
            Binary(P(1, 11),
              Variable(P(1, 7), "len"),
              "in",
              List(P(1, 14), <<Literal(P(1, 15), IntV(1)), Variable(P(1, 18), "print")>>))>>,
          FALSE))>>

\* print(find([nil, str], str))
Prog_function_find ==
    <<
      ExpressionStatement(P(1, 1),
        Call(P(1, 6),
          Variable(P(1, 1), "print"),
          <<
            Call(P(1, 11),
              Variable(P(1, 7), "find"),
              <<
                List(P(1, 12), <<Literal(P(1, 13), NilV), Variable(P(1, 18), "str")>>),
                Variable(P(1, 24), "str")>>,
              FALSE)>>,
          FALSE))>>

\* m = {}
\* m["b"] = 1
\* m["a!"] = [{"k": nil}]
\* m["a"] = "x"
\* n = {"a": "x", "a!": [{"k": nil}], "b": 1}
\* print(str(m) == str(n))
\* print(m)
Prog_map_keys ==
    <<
      Assign(P(1, 3), Variable(P(1, 1), "m"), Map(P(1, 5), <<>>)),
      Assign(P(2, 8),
        Subscript(P(2, 2), Variable(P(2, 1), "m"), Literal(P(2, 3), StrV(<<98>>))),
        Literal(P(2, 10), IntV(1))),
      Assign(P(3, 9),
        Subscript(P(3, 2), Variable(P(3, 1), "m"), Literal(P(3, 3), StrV(<<97, 33>>))),
        List(P(3, 11),
          <<Map(P(3, 12), <<MapItem(Literal(P(3, 13), StrV(<<107>>)), Literal(P(3, 18), NilV))>>)>>)),
      Assign(P(4, 8),
        Subscript(P(4, 2), Variable(P(4, 1), "m"), Literal(P(4, 3), StrV(<<97>>))),
        Literal(P(4, 10), StrV(<<120>>))),
      Assign(P(5, 3),
        Variable(P(5, 1), "n"),
        Map(P(5, 5),
          <<
            MapItem(Literal(P(5, 6), StrV(<<97>>)), Literal(P(5, 11), StrV(<<120>>))),
            MapItem(
              Literal(P(5, 16), StrV(<<97, 33>>)),
              List(P(5, 22),
                <<
                  Map(P(5, 23),
                    <<MapItem(Literal(P(5, 24), StrV(<<107>>)), Literal(P(5, 29), NilV))>>)>>)),
            MapItem(Literal(P(5, 36), StrV(<<98>>)), Literal(P(5, 41), IntV(1)))>>)),
      ExpressionStatement(P(6, 1),
        Call(P(6, 6),
          Variable(P(6, 1), "print"),
          <<
            Binary(P(6, 14),
              Call(P(6, 10), Variable(P(6, 7), "str"), <<Variable(P(6, 11), "m")>>, FALSE),
              "==",
              Call(P(6, 20), Variable(P(6, 17), "str"), <<Variable(P(6, 21), "n")>>, FALSE))>>,
          FALSE)),
      ExpressionStatement(P(7, 1),
        Call(P(7, 6), Variable(P(7, 1), "print"), <<Variable(P(7, 7), "m")>>, FALSE))>>

\* print(2 * 3, -4 * 5, 3 * "ab", "ab" * 2, "x" * 0, 0 * "y")
Prog_times ==
    <<
      ExpressionStatement(P(1, 1),
        Call(P(1, 6),
          Variable(P(1, 1), "print"),
          <<
            Binary(P(1, 9), Literal(P(1, 7), IntV(2)), "*", Literal(P(1, 11), IntV(3))),
            Binary(P(1, 17),
              Unary(P(1, 14), "-", Literal(P(1, 15), IntV(4))),
              "*",
              Literal(P(1, 19), IntV(5))),
            Binary(P(1, 24), Literal(P(1, 22), IntV(3)), "*", Literal(P(1, 26), StrV(<<97, 98>>))),
            Binary(P(1, 37), Literal(P(1, 32), StrV(<<97, 98>>)), "*", Literal(P(1, 39), IntV(2))),
            Binary(P(1, 46), Literal(P(1, 42), StrV(<<120>>)), "*", Literal(P(1, 48), IntV(0))),
            Binary(P(1, 53), Literal(P(1, 51), IntV(0)), "*", Literal(P(1, 55), StrV(<<121>>)))>>,
          FALSE))>>

\* print("ab" * -1)
Prog_times_negative ==
    <<
      ExpressionStatement(P(1, 1),
        Call(P(1, 6),
          Variable(P(1, 1), "print"),
          <<
            Binary(P(1, 12),
              Literal(P(1, 7), StrV(<<97, 98>>)),
              "*",
              Unary(P(1, 14), "-", Literal(P(1, 15), IntV(1))))>>,
          FALSE))>>

\* print(-2 * "ab")
Prog_times_negative_left ==
    <<
      ExpressionStatement(P(1, 1),
        Call(P(1, 6),
          Variable(P(1, 1), "print"),
          <<
            Binary(P(1, 10),
              Unary(P(1, 7), "-", Literal(P(1, 8), IntV(2))),
              "*",
              Literal(P(1, 12), StrV(<<97, 98>>)))>>,
          FALSE))>>

\* print(1 * true)
Prog_times_type ==
    <<
      ExpressionStatement(P(1, 1),
        Call(P(1, 6),
          Variable(P(1, 1), "print"),
          <<Binary(P(1, 9), Literal(P(1, 7), IntV(1)), "*", Literal(P(1, 11), BoolV(TRUE)))>>,
          FALSE))>>

\* print("a" * "b")
Prog_times_type_str ==
    <<
      ExpressionStatement(P(1, 1),
        Call(P(1, 6),
          Variable(P(1, 1), "print"),
          <<Binary(P(1, 11), Literal(P(1, 7), StrV(<<97>>)), "*", Literal(P(1, 13), StrV(<<98>>)))>>,
          FALSE))>>

\* lst = [1, 2]
\* big = lst * 2
\* print(big, lst)
Prog_times_list ==
    <<
      Assign(P(1, 5),
        Variable(P(1, 1), "lst"),
        List(P(1, 7), <<Literal(P(1, 8), IntV(1)), Literal(P(1, 11), IntV(2))>>)),
      Assign(P(2, 5),
        Variable(P(2, 1), "big"),
        Binary(P(2, 11), Variable(P(2, 7), "lst"), "*", Literal(P(2, 13), IntV(2)))),
      ExpressionStatement(P(3, 1),
        Call(P(3, 6),
          Variable(P(3, 1), "print"),
          <<Variable(P(3, 7), "big"), Variable(P(3, 12), "lst")>>,
          FALSE))>>

\* lst = ["a"]
\* print(3 * lst, lst)
Prog_times_list_left ==
    <<
      Assign(P(1, 5), Variable(P(1, 1), "lst"), List(P(1, 7), <<Literal(P(1, 8), StrV(<<97>>))>>)),
      ExpressionStatement(P(2, 1),
        Call(P(2, 6),
          Variable(P(2, 1), "print"),
          <<
            Binary(P(2, 9), Literal(P(2, 7), IntV(3)), "*", Variable(P(2, 11), "lst")),
            Variable(P(2, 16), "lst")>>,
          FALSE))>>

\* print(split("\tx\ry\nz ", nil), split("xyz", nil), split("", nil))
Prog_split_nil ==
    <<
      ExpressionStatement(P(1, 1),
        Call(P(1, 6),
          Variable(P(1, 1), "print"),
          <<
            Call(P(1, 12),
              Variable(P(1, 7), "split"),
              <<Literal(P(1, 13), StrV(<<9, 120, 13, 121, 10, 122, 32>>)), Literal(P(1, 27), NilV)>>,
              FALSE),
            Call(P(1, 38),
              Variable(P(1, 33), "split"),
              <<Literal(P(1, 39), StrV(<<120, 121, 122>>)), Literal(P(1, 46), NilV)>>,
              FALSE),
            Call(P(1, 57),
              Variable(P(1, 52), "split"),
              <<Literal(P(1, 58), StrV(<<>>)), Literal(P(1, 62), NilV)>>,
              FALSE)>>,
          FALSE))>>

\* print(split("x|y|z", "|"), split("xyz", "|"), split("", "|"), split("a--b-", "--"))
Prog_split_sep ==
    <<
      ExpressionStatement(P(1, 1),
        Call(P(1, 6),
          Variable(P(1, 1), "print"),
          <<
            Call(P(1, 12),
              Variable(P(1, 7), "split"),
              <<
                Literal(P(1, 13), StrV(<<120, 124, 121, 124, 122>>)),
                Literal(P(1, 22), StrV(<<124>>))>>,
              FALSE),
            Call(P(1, 33),
              Variable(P(1, 28), "split"),
              <<Literal(P(1, 34), StrV(<<120, 121, 122>>)), Literal(P(1, 41), StrV(<<124>>))>>,
              FALSE),
            Call(P(1, 52),
              Variable(P(1, 47), "split"),
              <<Literal(P(1, 53), StrV(<<>>)), Literal(P(1, 57), StrV(<<124>>))>>,
              FALSE),
            Call(P(1, 68),
              Variable(P(1, 63), "split"),
              <<
                Literal(P(1, 69), StrV(<<97, 45, 45, 98, 45>>)),
                Literal(P(1, 78), StrV(<<45, 45>>))>>,
              FALSE)>>,
          FALSE))>>

\* print(split("ab", ""))
Prog_split_empty_sep ==
    <<
      ExpressionStatement(P(1, 1),
        Call(P(1, 6),
          Variable(P(1, 1), "print"),
          <<
            Call(P(1, 12),
              Variable(P(1, 7), "split"),
              <<Literal(P(1, 13), StrV(<<97, 98>>)), Literal(P(1, 19), StrV(<<>>))>>,
              FALSE)>>,
          FALSE))>>

\* print(split(" x  y "))
Prog_split_one ==
    <<
      ExpressionStatement(P(1, 1),
        Call(P(1, 6),
          Variable(P(1, 1), "print"),
          <<
            Call(P(1, 12),
              Variable(P(1, 7), "split"),
              <<Literal(P(1, 13), StrV(<<32, 120, 32, 32, 121, 32>>))>>,
              FALSE)>>,
          FALSE))>>

\* split()
Prog_split_none ==
    <<ExpressionStatement(P(1, 1), Call(P(1, 6), Variable(P(1, 1), "split"), <<>>, FALSE))>>

\* split("a", "b", "c")
Prog_split_three ==
    <<
      ExpressionStatement(P(1, 1),
        Call(P(1, 6),
          Variable(P(1, 1), "split"),
          <<
            Literal(P(1, 7), StrV(<<97>>)),
            Literal(P(1, 12), StrV(<<98>>)),
            Literal(P(1, 17), StrV(<<99>>))>>,
          FALSE))>>

\* split("x", 42)
Prog_split_bad_sep ==
    <<
      ExpressionStatement(P(1, 1),
        Call(P(1, 6),
          Variable(P(1, 1), "split"),
          <<Literal(P(1, 7), StrV(<<120>>)), Literal(P(1, 12), IntV(42))>>,
          FALSE))>>

\* split(1, nil)
Prog_split_bad_str ==
    <<
      ExpressionStatement(P(1, 1),
        Call(P(1, 6),
          Variable(P(1, 1), "split"),
          <<Literal(P(1, 7), IntV(1)), Literal(P(1, 10), NilV)>>,
          FALSE))>>

\* lst=[1,2,3] lst[-1]
Prog_subscript_negative ==
    <<
      Assign(P(1, 4),
        Variable(P(1, 1), "lst"),
        List(P(1, 5),
          <<Literal(P(1, 6), IntV(1)), Literal(P(1, 8), IntV(2)), Literal(P(1, 10), IntV(3))>>)),
      ExpressionStatement(P(1, 13),
        Subscript(P(1, 16),
          Variable(P(1, 13), "lst"),
          Unary(P(1, 17), "-", Literal(P(1, 18), IntV(1)))))>>

\* x = [1,2,3]  x[3]
Prog_subscript_high ==
    <<
      Assign(P(1, 3),
        Variable(P(1, 1), "x"),
        List(P(1, 5),
          <<Literal(P(1, 6), IntV(1)), Literal(P(1, 8), IntV(2)), Literal(P(1, 10), IntV(3))>>)),
      ExpressionStatement(P(1, 14),
        Subscript(P(1, 15), Variable(P(1, 14), "x"), Literal(P(1, 16), IntV(3))))>>

\* s = "ab"
\* print(s[1])
\* s[2]
Prog_subscript_str ==
    <<
      Assign(P(1, 3), Variable(P(1, 1), "s"), Literal(P(1, 5), StrV(<<97, 98>>))),
      ExpressionStatement(P(2, 1),
        Call(P(2, 6),
          Variable(P(2, 1), "print"),
          <<Subscript(P(2, 8), Variable(P(2, 7), "s"), Literal(P(2, 9), IntV(1)))>>,
          FALSE)),
      ExpressionStatement(P(3, 1),
        Subscript(P(3, 2), Variable(P(3, 1), "s"), Literal(P(3, 3), IntV(2))))>>

\* "ab"[0 - 1]
Prog_subscript_str_negative ==
    <<
      ExpressionStatement(P(1, 1),
        Subscript(P(1, 5),
          Literal(P(1, 1), StrV(<<97, 98>>)),
          Binary(P(1, 8), Literal(P(1, 6), IntV(0)), "-", Literal(P(1, 10), IntV(1)))))>>

\* [][0]
Prog_subscript_empty ==
    <<
      ExpressionStatement(P(1, 1),
        Subscript(P(1, 3), List(P(1, 1), <<>>), Literal(P(1, 4), IntV(0))))>>

\* lst = [1, 2, 3]
\* lst[-1] = 0
Prog_assign_negative ==
    <<
      Assign(P(1, 5),
        Variable(P(1, 1), "lst"),
        List(P(1, 7),
          <<Literal(P(1, 8), IntV(1)), Literal(P(1, 11), IntV(2)), Literal(P(1, 14), IntV(3))>>)),
      Assign(P(2, 9),
        Subscript(P(2, 4), Variable(P(2, 1), "lst"), Unary(P(2, 5), "-", Literal(P(2, 6), IntV(1)))),
        Literal(P(2, 11), IntV(0)))>>

\* lst = [1]
\* lst[0] = 4
\* lst[1] = 5
Prog_assign_high ==
    <<
      Assign(P(1, 5), Variable(P(1, 1), "lst"), List(P(1, 7), <<Literal(P(1, 8), IntV(1))>>)),
      Assign(P(2, 8),
        Subscript(P(2, 4), Variable(P(2, 1), "lst"), Literal(P(2, 5), IntV(0))),
        Literal(P(2, 10), IntV(4))),
      Assign(P(3, 8),
        Subscript(P(3, 4), Variable(P(3, 1), "lst"), Literal(P(3, 5), IntV(1))),
        Literal(P(3, 10), IntV(5)))>>

\* lst = [1, 2]
\* append(lst, 3)
\* for x in lst {
\*     append(lst, x + 10)
\*     print(x)
\* }
\* print(lst)
Prog_for_append ==
    <<
      Assign(P(1, 5),
        Variable(P(1, 1), "lst"),
        List(P(1, 7), <<Literal(P(1, 8), IntV(1)), Literal(P(1, 11), IntV(2))>>)),
      ExpressionStatement(P(2, 1),
        Call(P(2, 7),
          Variable(P(2, 1), "append"),
          <<Variable(P(2, 8), "lst"), Literal(P(2, 13), IntV(3))>>,
          FALSE)),
      For(P(3, 1), "x",
        Variable(P(3, 10), "lst"),
        <<
          ExpressionStatement(P(4, 5),
            Call(P(4, 11),
              Variable(P(4, 5), "append"),
              <<
                Variable(P(4, 12), "lst"),
                Binary(P(4, 19), Variable(P(4, 17), "x"), "+", Literal(P(4, 21), IntV(10)))>>,
              FALSE)),
          ExpressionStatement(P(5, 5),
            Call(P(5, 10), Variable(P(5, 5), "print"), <<Variable(P(5, 11), "x")>>, FALSE))>>),
      ExpressionStatement(P(7, 1),
        Call(P(7, 6), Variable(P(7, 1), "print"), <<Variable(P(7, 7), "lst")>>, FALSE))>>

\* lst = [1, 2, 3]
\* for x in lst {
\*     lst[2] = 0
\*     print(x)
\* }
Prog_for_assign ==
    <<
      Assign(P(1, 5),
        Variable(P(1, 1), "lst"),
        List(P(1, 7),
          <<Literal(P(1, 8), IntV(1)), Literal(P(1, 11), IntV(2)), Literal(P(1, 14), IntV(3))>>)),
      For(P(2, 1), "x",
        Variable(P(2, 10), "lst"),
        <<
          Assign(P(3, 12),
            Subscript(P(3, 8), Variable(P(3, 5), "lst"), Literal(P(3, 9), IntV(2))),
            Literal(P(3, 14), IntV(0))),
          ExpressionStatement(P(4, 5),
            Call(P(4, 10), Variable(P(4, 5), "print"), <<Variable(P(4, 11), "x")>>, FALSE))>>)>>

\* m = {"a": 1}
\* for k in m {
\*     m[k + k] = 2
\*     m[k] = 0
\*     print(k)
\* }
\* print(m)
Prog_for_map_add ==
    <<
      Assign(P(1, 3),
        Variable(P(1, 1), "m"),
        Map(P(1, 5), <<MapItem(Literal(P(1, 6), StrV(<<97>>)), Literal(P(1, 11), IntV(1)))>>)),
      For(P(2, 1), "k",
        Variable(P(2, 10), "m"),
        <<
          Assign(P(3, 14),
            Subscript(P(3, 6),
              Variable(P(3, 5), "m"),
              Binary(P(3, 9), Variable(P(3, 7), "k"), "+", Variable(P(3, 11), "k"))),
            Literal(P(3, 16), IntV(2))),
          Assign(P(4, 10),
            Subscript(P(4, 6), Variable(P(4, 5), "m"), Variable(P(4, 7), "k")),
            Literal(P(4, 12), IntV(0))),
          ExpressionStatement(P(5, 5),
            Call(P(5, 10), Variable(P(5, 5), "print"), <<Variable(P(5, 11), "k")>>, FALSE))>>),
      ExpressionStatement(P(7, 1),
        Call(P(7, 6), Variable(P(7, 1), "print"), <<Variable(P(7, 7), "m")>>, FALSE))>>

\* l = [1, 2]
\* for x in l {
\*     for y in l { append(l, 0) }
\* }
\* print(len(l))
Prog_for_nested ==
    <<
      Assign(P(1, 3),
        Variable(P(1, 1), "l"),
        List(P(1, 5), <<Literal(P(1, 6), IntV(1)), Literal(P(1, 9), IntV(2))>>)),
      For(P(2, 1), "x",
        Variable(P(2, 10), "l"),
        <<
          For(P(3, 5), "y",
            Variable(P(3, 14), "l"),
            <<
              ExpressionStatement(P(3, 18),
                Call(P(3, 24),
                  Variable(P(3, 18), "append"),
                  <<Variable(P(3, 25), "l"), Literal(P(3, 28), IntV(0))>>,
                  FALSE))>>)>>),
      ExpressionStatement(P(5, 1),
        Call(P(5, 6),
          Variable(P(5, 1), "print"),
          <<Call(P(5, 10), Variable(P(5, 7), "len"), <<Variable(P(5, 11), "l")>>, FALSE)>>,
          FALSE))>>

\* a = [1, "x", [nil, true], {"k": [2]}]
\* b = [1, "x", [nil, true], {"k": [2]}]
\* m = {"a": nil, "b": {"c": 1}}
\* print(a == a, a == b, b == a, a != b, m == m, m != m, a == m, m == a, a != m)
\* print(nil == nil, nil == false, 0 == "0", "0" == 0, 1 != 1, [] == {}, {} == [], [] != [1])
Prog_equal_data ==
    <<
      Assign(P(1, 3),
        Variable(P(1, 1), "a"),
        List(P(1, 5),
          <<
            Literal(P(1, 6), IntV(1)),
            Literal(P(1, 9), StrV(<<120>>)),
            List(P(1, 14), <<Literal(P(1, 15), NilV), Literal(P(1, 20), BoolV(TRUE))>>),
            Map(P(1, 27),
              <<
                MapItem(
                  Literal(P(1, 28), StrV(<<107>>)),
                  List(P(1, 33), <<Literal(P(1, 34), IntV(2))>>))>>)>>)),
      Assign(P(2, 3),
        Variable(P(2, 1), "b"),
        List(P(2, 5),
          <<
            Literal(P(2, 6), IntV(1)),
            Literal(P(2, 9), StrV(<<120>>)),
            List(P(2, 14), <<Literal(P(2, 15), NilV), Literal(P(2, 20), BoolV(TRUE))>>),
            Map(P(2, 27),
              <<
                MapItem(
                  Literal(P(2, 28), StrV(<<107>>)),
                  List(P(2, 33), <<Literal(P(2, 34), IntV(2))>>))>>)>>)),
      Assign(P(3, 3),
        Variable(P(3, 1), "m"),
        Map(P(3, 5),
          <<
            MapItem(Literal(P(3, 6), StrV(<<97>>)), Literal(P(3, 11), NilV)),
            MapItem(
              Literal(P(3, 16), StrV(<<98>>)),
              Map(P(3, 21),
                <<MapItem(Literal(P(3, 22), StrV(<<99>>)), Literal(P(3, 27), IntV(1)))>>))>>)),
      ExpressionStatement(P(4, 1),
        Call(P(4, 6),
          Variable(P(4, 1), "print"),
          <<
            Binary(P(4, 9), Variable(P(4, 7), "a"), "==", Variable(P(4, 12), "a")),
            Binary(P(4, 17), Variable(P(4, 15), "a"), "==", Variable(P(4, 20), "b")),
            Binary(P(4, 25), Variable(P(4, 23), "b"), "==", Variable(P(4, 28), "a")),
            Binary(P(4, 33), Variable(P(4, 31), "a"), "!=", Variable(P(4, 36), "b")),
            Binary(P(4, 41), Variable(P(4, 39), "m"), "==", Variable(P(4, 44), "m")),
            Binary(P(4, 49), Variable(P(4, 47), "m"), "!=", Variable(P(4, 52), "m")),
            Binary(P(4, 57), Variable(P(4, 55), "a"), "==", Variable(P(4, 60), "m")),
            Binary(P(4, 65), Variable(P(4, 63), "m"), "==", Variable(P(4, 68), "a")),
            Binary(P(4, 73), Variable(P(4, 71), "a"), "!=", Variable(P(4, 76), "m"))>>,
          FALSE)),
      ExpressionStatement(P(5, 1),
        Call(P(5, 6),
          Variable(P(5, 1), "print"),
          <<
            Binary(P(5, 11), Literal(P(5, 7), NilV), "==", Literal(P(5, 14), NilV)),
            Binary(P(5, 23), Literal(P(5, 19), NilV), "==", Literal(P(5, 26), BoolV(FALSE))),
            Binary(P(5, 35), Literal(P(5, 33), IntV(0)), "==", Literal(P(5, 38), StrV(<<48>>))),
            Binary(P(5, 47), Literal(P(5, 43), StrV(<<48>>)), "==", Literal(P(5, 50), IntV(0))),
            Binary(P(5, 55), Literal(P(5, 53), IntV(1)), "!=", Literal(P(5, 58), IntV(1))),
            Binary(P(5, 64), List(P(5, 61), <<>>), "==", Map(P(5, 67), <<>>)),
            Binary(P(5, 74), Map(P(5, 71), <<>>), "==", List(P(5, 77), <<>>)),
            Binary(P(5, 84),
              List(P(5, 81), <<>>),
              "!=",
              List(P(5, 87), <<Literal(P(5, 88), IntV(1))>>))>>,
          FALSE))>>

\* l = {"a": nil}
\* r = {"b": 1}
\* print(l == r, r == l)
\* print(l != r, r != l)
Prog_equal_asymmetric ==
    <<
      Assign(P(1, 3),
        Variable(P(1, 1), "l"),
        Map(P(1, 5), <<MapItem(Literal(P(1, 6), StrV(<<97>>)), Literal(P(1, 11), NilV))>>)),
      Assign(P(2, 3),
        Variable(P(2, 1), "r"),
        Map(P(2, 5), <<MapItem(Literal(P(2, 6), StrV(<<98>>)), Literal(P(2, 11), IntV(1)))>>)),
      ExpressionStatement(P(3, 1),
        Call(P(3, 6),
          Variable(P(3, 1), "print"),
          <<
            Binary(P(3, 9), Variable(P(3, 7), "l"), "==", Variable(P(3, 12), "r")),
            Binary(P(3, 17), Variable(P(3, 15), "r"), "==", Variable(P(3, 20), "l"))>>,
          FALSE)),
      ExpressionStatement(P(4, 1),
        Call(P(4, 6),
          Variable(P(4, 1), "print"),
          <<
            Binary(P(4, 9), Variable(P(4, 7), "l"), "!=", Variable(P(4, 12), "r")),
            Binary(P(4, 17), Variable(P(4, 15), "r"), "!=", Variable(P(4, 20), "l"))>>,
          FALSE))>>

Programs ==
    {Prog_adder, Prog_counter, Prog_fallthrough, Prog_nested_return,
    Prog_recursion, Prog_callee_writes, Prog_dynamic, Prog_deep_closure,
    Prog_late_binding, Prog_global_late, Prog_alias, Prog_alias_call,
    Prog_fresh, Prog_fresh_slice, Prog_top_return, Prog_top_return_nested,
    Prog_error_depth, Prog_error_name, Prog_error_type, Prog_error_call,
    Prog_error_key, Prog_error_arity, Prog_error_conditions,
    Prog_error_misc, Prog_error_iter, Prog_error_and, Prog_sort_key,
    Prog_variadic, Prog_variadic_crash, Prog_iterate, Prog_forever,
    Prog_variadic_mutate, Prog_short_circuit, Prog_error_and_right,
    Prog_error_or_left, Prog_for_variable, Prog_sort_stable, Prog_sort_one,
    Prog_map_equal, Prog_function_equal, Prog_function_in,
    Prog_function_find, Prog_map_keys, Prog_times, Prog_times_negative,
    Prog_times_negative_left, Prog_times_type, Prog_times_type_str,
    Prog_times_list, Prog_times_list_left, Prog_split_nil, Prog_split_sep,
    Prog_split_empty_sep, Prog_split_one, Prog_split_none,
    Prog_split_three, Prog_split_bad_sep, Prog_split_bad_str,
    Prog_subscript_negative, Prog_subscript_high, Prog_subscript_str,
    Prog_subscript_str_negative, Prog_subscript_empty,
    Prog_assign_negative, Prog_assign_high, Prog_for_append,
    Prog_for_assign, Prog_for_map_add, Prog_for_nested, Prog_equal_data,
    Prog_equal_asymmetric}

\* the bytes of a name ([]byte(name))
NameBytes(name) ==
    CASE name = "" -> <<>>
      [] name = "a" -> <<97>>
      [] name = "add" -> <<97, 100, 100>>
      [] name = "add3" -> <<97, 100, 100, 51>>
      [] name = "add5" -> <<97, 100, 100, 53>>
      [] name = "adder" -> <<97, 100, 100, 101, 114>>
      [] name = "append" -> <<97, 112, 112, 101, 110, 100>>
      [] name = "args" -> <<97, 114, 103, 115>>
      [] name = "b" -> <<98>>
      [] name = "big" -> <<98, 105, 103>>
      [] name = "c" -> <<99>>
      [] name = "char" -> <<99, 104, 97, 114>>
      [] name = "count" -> <<99, 111, 117, 110, 116>>
      [] name = "counter" -> <<99, 111, 117, 110, 116, 101, 114>>
      [] name = "d" -> <<100>>
      [] name = "e" -> <<101>>
      [] name = "exit" -> <<101, 120, 105, 116>>
      [] name = "f" -> <<102>>
      [] name = "fact" -> <<102, 97, 99, 116>>
      [] name = "find" -> <<102, 105, 110, 100>>
      [] name = "g" -> <<103>>
      [] name = "get" -> <<103, 101, 116>>
      [] name = "h" -> <<104>>
      [] name = "i" -> <<105>>
      [] name = "inner" -> <<105, 110, 110, 101, 114>>
      [] name = "int" -> <<105, 110, 116>>
      [] name = "join" -> <<106, 111, 105, 110>>
      [] name = "k" -> <<107>>
      [] name = "l" -> <<108>>
      [] name = "len" -> <<108, 101, 110>>
      [] name = "loop" -> <<108, 111, 111, 112>>
      [] name = "lower" -> <<108, 111, 119, 101, 114>>
      [] name = "lst" -> <<108, 115, 116>>
      [] name = "m" -> <<109>>
      [] name = "make_adder" -> <<109, 97, 107, 101, 95, 97, 100, 100, 101, 114>>
      [] name = "make_counter" -> <<109, 97, 107, 101, 95, 99, 111, 117, 110, 116, 101, 114>>
      [] name = "mid" -> <<109, 105, 100>>
      [] name = "mk" -> <<109, 107>>
      [] name = "mut" -> <<109, 117, 116>>
      [] name = "n" -> <<110>>
      [] name = "nums" -> <<110, 117, 109, 115>>
      [] name = "one" -> <<111, 110, 101>>
      [] name = "outer" -> <<111, 117, 116, 101, 114>>
      [] name = "p" -> <<112>>
      [] name = "print" -> <<112, 114, 105, 110, 116>>
      [] name = "r" -> <<114>>
      [] name = "range" -> <<114, 97, 110, 103, 101>>
      [] name = "read" -> <<114, 101, 97, 100>>
      [] name = "rest" -> <<114, 101, 115, 116>>
      [] name = "rune" -> <<114, 117, 110, 101>>
      [] name = "s" -> <<115>>
      [] name = "slice" -> <<115, 108, 105, 99, 101>>
      [] name = "sort" -> <<115, 111, 114, 116>>
      [] name = "split" -> <<115, 112, 108, 105, 116>>
      [] name = "str" -> <<115, 116, 114>>
      [] name = "sum" -> <<115, 117, 109>>
      [] name = "t" -> <<116>>
      [] name = "type" -> <<116, 121, 112, 101>>
      [] name = "upper" -> <<117, 112, 112, 101, 114>>
      [] name = "v" -> <<118>>
      [] name = "x" -> <<120>>
      [] name = "y" -> <<121>>
      [] name = "z" -> <<122>>

(***************************************************************************)
(* Small helpers on sequences and byte strings.                            *)
(***************************************************************************)
Last(s) ==
    s[Len(s)]

Front(s) ==
    SubSeq(s, 1, Len(s) - 1)

Max(a, b) ==
    IF a >= b THEN a ELSE b

RECURSIVE Repeat(_, _)
Repeat(s, n) ==
    IF n <= 0 THEN << >> ELSE s \o Repeat(s, n - 1)

RECURSIVE Join(_, _)
Join(strs, sep) ==
    IF Len(strs) = 0 THEN << >>
    ELSE IF Len(strs) = 1 THEN strs[1]
    ELSE strs[1] \o sep \o Join(Tail(strs), sep)

\* Go's < on strings: byte-wise lexicographic order
StrLess(a, b) ==
    \/ /\ Len(a) < Len(b)
       /\ \A i \in 1..Len(a) : a[i] = b[i]
    \/ \E i \in 1..Len(a) :
          /\ i <= Len(b)
          /\ a[i] < b[i]
          /\ \A j \in 1..(i - 1) : a[j] = b[j]

\* strings.Index(s, sub) >= 0
Contains(s, sub) ==
    \E i \in 0..(Len(s) - Len(sub)) : SubSeq(s, i + 1, i + Len(sub)) = sub

\* Go's integer division (truncated toward zero) and remainder (sign of
\* the dividend)
Abs(n) ==
    IF n < 0 THEN 0 - n ELSE n

GoDiv(a, b) ==
    IF (a < 0) = (b < 0) THEN Abs(a) \div Abs(b) ELSE 0 - (Abs(a) \div Abs(b))

GoMod(a, b) ==
    a - b * GoDiv(a, b)

RECURSIVE Digits(_)
Digits(n) ==
    IF n < 10 THEN <<48 + n>> ELSE Digits(n \div 10) \o <<48 + (n % 10)>>

\* fmt.Sprintf("%d", n)
FormatInt(n) ==
    IF n < 0 THEN <<45>> \o Digits(0 - n) ELSE Digits(n)

(***************************************************************************)
(* The heap.  A list value is a pointer *[]Value: lists[id] is the slice   *)
(* header it points to and arrays[header.arr] the backing array.           *)
(***************************************************************************)
Header(arr, off, len, cap) ==
    [arr |-> arr, off |-> off, len |-> len, cap |-> cap]

ElemsOf(ls, ar, id) ==
    [i \in 1..ls[id].len |-> ar[ls[id].arr][ls[id].off + i]]

Elems(id) ==
    ElemsOf(lists, arrays, id)

\* make([]Value, len, cap) filled with elems
Padded(elems, cap) ==
    [i \in 1..cap |-> IF i <= Len(elems) THEN elems[i] ELSE NilV]

\* the result of an operation that may allocate, mutate or write output
Result(ok, v, p, ls, ar, ms, out) ==
    [ok |-> ok, v |-> v, p |-> p, lists |-> ls, arrays |-> ar, maps |-> ms,
     stdout |-> out]

Ok(v) ==
    Result(TRUE, v, NoError, lists, arrays, maps, stdout)

Raise(p) ==
    Result(FALSE, NilV, p, lists, arrays, maps, stdout)

\* a new list object over a new backing array
OkNewList(elems, cap) ==
    Result(TRUE, ListV(Len(lists) + 1), NoError,
           Append(lists, Header(Len(arrays) + 1, 0, Len(elems), cap)),
           Append(arrays, Padded(elems, cap)), maps, stdout)

OkNewMap(m) ==
    Result(TRUE, MapV(Len(maps) + 1), NoError, lists, arrays, Append(maps, m), stdout)

(***************************************************************************)
(* evalEqual and evalLess.  A map is ranged over in an order the Go        *)
(* runtime picks, so an operator gives the set of outcomes it can have:    *)
(* "true", "false", or "panic" (the Go runtime panics when it compares     *)
(* two builtinFunction structs, which hold a func field).                  *)
(***************************************************************************)
RECURSIVE evalEqual(_, _)
RECURSIVE equalElems(_, _, _)

equalElems(a, b, i) ==
    IF i > Len(a) THEN {"true"}
    ELSE LET o == evalEqual(a[i], b[i])
         IN  (o \ {"true"}) \cup (IF "true" \in o THEN equalElems(a, b, i + 1) ELSE {})

evalEqual(l, r) ==
    CASE l.k = "nil" -> {IF r.k = "nil" THEN "true" ELSE "false"}
      [] l.k = "bool" -> {IF r.k = "bool" /\ l.b = r.b THEN "true" ELSE "false"}
      [] l.k = "int" -> {IF r.k = "int" /\ l.n = r.n THEN "true" ELSE "false"}
      [] l.k = "str" -> {IF r.k = "str" /\ l.s = r.s THEN "true" ELSE "false"}
      [] l.k = "list" ->
            IF r.k # "list" THEN {"false"}
            ELSE IF lists[l.id].len # lists[r.id].len THEN {"false"}
            ELSE equalElems(Elems(l.id), Elems(r.id), 1)
      [] l.k = "map" ->
            IF r.k # "map" THEN {"false"}
            ELSE LET lm == maps[l.id]
                     rm == maps[r.id]
                     \* r[k] is nil when k is not a key of r
                     o(key) == evalEqual(lm[key], IF key \in DOMAIN rm THEN rm[key] ELSE NilV)
                 IN  IF Cardinality(DOMAIN lm) # Cardinality(DOMAIN rm) THEN {"false"}
                     ELSE {x \in {"false", "panic"} : \E key \in DOMAIN lm : x \in o(key)}
                          \cup {x \in {"true"} : \A key \in DOMAIN lm : "true" \in o(key)}
      [] l.k = "func" ->
            {IF r.k = "func" /\ l.id = r.id THEN "true" ELSE "false"}
      [] l.k = "builtin" ->
            IF r.k = "builtin" THEN {"panic"} ELSE {"false"}

UncomparablePanic ==
    goPanic("runtime error: comparing uncomparable type interpreter.builtinFunction")

ComparisonError(pos) ==
    typeError(pos, "comparison requires two ints or two strs (or lists of ints or strs)", << >>)

RECURSIVE evalLess(_, _)
RECURSIVE lessElems(_, _, _)

\* the outcomes of evalLess: "true", "false", "panic", "type error"
lessElems(a, b, i) ==
    IF i > Len(a) \/ i > Len(b) THEN {IF Len(a) < Len(b) THEN "true" ELSE "false"}
    ELSE LET o == evalEqual(a[i], b[i])
         IN  (o \cap {"panic"})
             \cup (IF "false" \in o THEN evalLess(a[i], b[i]) ELSE {})
             \cup (IF "true" \in o THEN lessElems(a, b, i + 1) ELSE {})

evalLess(l, r) ==
    CASE l.k = "int" /\ r.k = "int" -> {IF l.n < r.n THEN "true" ELSE "false"}
      [] l.k = "str" /\ r.k = "str" -> {IF StrLess(l.s, r.s) THEN "true" ELSE "false"}
      [] l.k = "list" /\ r.k = "list" -> lessElems(Elems(l.id), Elems(r.id), 1)
      [] OTHER -> {"type error"}

\* an outcome as the result of a comparison operator, negated or not
Compared(pos, outcome, negate) ==
    CASE outcome = "true" -> Ok(BoolV(~negate))
      [] outcome = "false" -> Ok(BoolV(negate))
      [] outcome = "panic" -> Raise(UncomparablePanic)
      [] outcome = "type error" -> Raise(ComparisonError(pos))

(***************************************************************************)
(* The binary and unary operators (binaryEvalFuncs, unaryEvalFuncs).  Each *)
(* gives the set of results the Go code can produce.                       *)
(***************************************************************************)
evalEqualOp(pos, l, r) ==
    {Compared(pos, o, FALSE) : o \in evalEqual(l, r)}

evalNotEqualOp(pos, l, r) ==
    {Compared(pos, o, TRUE) : o \in evalEqual(l, r)}

RECURSIVE inElems(_, _, _)
inElems(l, a, i) ==
    IF i > Len(a) THEN {"false"}
    ELSE LET o == evalEqual(l, a[i])
         IN  (o \ {"false"}) \cup (IF "false" \in o THEN inElems(l, a, i + 1) ELSE {})

evalIn(pos, l, r) ==
    CASE r.k = "str" ->
            IF l.k = "str" THEN {Ok(BoolV(Contains(r.s, l.s)))}
            ELSE {Raise(typeError(pos, "in str requires str on left side", << >>))}
      [] r.k = "list" ->
            {Compared(pos, o, FALSE) : o \in inElems(l, Elems(r.id), 1)}
      [] r.k = "map" ->
            IF l.k = "str" THEN {Ok(BoolV(l.s \in DOMAIN maps[r.id]))}
            ELSE {Raise(typeError(pos, "in map requires str on left side", << >>))}
      [] OTHER ->
            {Raise(typeError(pos, "in requires str, list, or map on right side", << >>))}

evalLessOp(pos, l, r) ==
    {Compared(pos, o, FALSE) : o \in evalLess(l, r)}

evalGreaterOp(pos, l, r) ==
    {Compared(pos, o, FALSE) : o \in evalLess(r, l)}

evalGreaterEqualOp(pos, l, r) ==
    {Compared(pos, o, TRUE) : o \in evalLess(l, r)}

evalLessEqualOp(pos, l, r) ==
    {Compared(pos, o, TRUE) : o \in evalLess(r, l)}

\* the + of two lists: make([]Value, 0, len(l)+len(r)), then two appends
PlusLists(l, r) ==
    OkNewList(Elems(l.id) \o Elems(r.id), lists[l.id].len + lists[r.id].len)

\* the + of two maps: a new map filled from l, then from r
PlusMaps(l, r) ==
    LET lm == maps[l.id]
        rm == maps[r.id]
    IN  OkNewMap([key \in DOMAIN lm \cup DOMAIN rm |->
                    IF key \in DOMAIN rm THEN rm[key] ELSE lm[key]])

evalPlus(pos, l, r) ==
    CASE l.k = "int" /\ r.k = "int" -> {Ok(IntV(l.n + r.n))}
      [] l.k = "str" /\ r.k = "str" -> {Ok(StrV(l.s \o r.s))}
      [] l.k = "list" /\ r.k = "list" -> {PlusLists(l, r)}
      [] l.k = "map" /\ r.k = "map" -> {PlusMaps(l, r)}
      [] OTHER -> {Raise(typeError(pos, "+ requires two ints, strs, lists, or maps", << >>))}

ensureInts(l, r) ==
    l.k = "int" /\ r.k = "int"

evalMinus(pos, l, r) ==
    IF ensureInts(l, r) THEN {Ok(IntV(l.n - r.n))}
    ELSE {Raise(typeError(pos, "%s requires two ints", <<<<45>>>>))}

evalTimes(pos, l, r) ==
    CASE l.k = "int" /\ r.k = "int" -> {Ok(IntV(l.n * r.n))}
      [] l.k = "int" /\ r.k = "str" ->
            IF l.n < 0
            THEN {Raise(valueError(pos, "can't multiply string by a negative number", << >>))}
            ELSE {Ok(StrV(Repeat(r.s, l.n)))}
      [] l.k = "str" /\ r.k = "int" ->
            IF r.n < 0
            THEN {Raise(valueError(pos, "can't multiply string by a negative number", << >>))}
            ELSE {Ok(StrV(Repeat(l.s, r.n)))}
      [] OTHER -> {Raise(typeError(pos, "* requires two ints or a str and an int", << >>))}

evalDivide(pos, l, r) ==
    IF ~ensureInts(l, r) THEN {Raise(typeError(pos, "%s requires two ints", <<<<47>>>>))}
    ELSE IF r.n = 0 THEN {Raise(valueError(pos, "can't divide by zero", << >>))}
    ELSE {Ok(IntV(GoDiv(l.n, r.n)))}

evalModulo(pos, l, r) ==
    IF ~ensureInts(l, r) THEN {Raise(typeError(pos, "%s requires two ints", <<<<37>>>>))}
    ELSE IF r.n = 0 THEN {Raise(valueError(pos, "can't divide by zero", << >>))}
    ELSE {Ok(IntV(GoMod(l.n, r.n)))}

binaryEvalFuncs(op, pos, l, r) ==
    CASE op = "/" -> evalDivide(pos, l, r)
      [] op = "==" -> evalEqualOp(pos, l, r)
      [] op = ">" -> evalGreaterOp(pos, l, r)
      [] op = ">=" -> evalGreaterEqualOp(pos, l, r)
      [] op = "in" -> evalIn(pos, l, r)
      [] op = "<" -> evalLessOp(pos, l, r)
      [] op = "<=" -> evalLessEqualOp(pos, l, r)
      [] op = "-" -> evalMinus(pos, l, r)
      [] op = "%" -> evalModulo(pos, l, r)
      [] op = "!=" -> evalNotEqualOp(pos, l, r)
      [] op = "+" -> evalPlus(pos, l, r)
      [] op = "*" -> evalTimes(pos, l, r)

evalNot(pos, v) ==
    IF v.k = "bool" THEN Ok(BoolV(~v.b))
    ELSE Raise(typeError(pos, "not requires a bool", << >>))

evalNegative(pos, v) ==
    IF v.k = "int" THEN Ok(IntV(0 - v.n))
    ELSE Raise(typeError(pos, "unary - requires an int", << >>))

unaryEvalFuncs(op, pos, v) ==
    CASE op = "not" -> evalNot(pos, v)
      [] op = "-" -> evalNegative(pos, v)

evalSubscript(pos, container, subscript) ==
    CASE container.k = "str" ->
            IF subscript.k # "int"
            THEN Raise(typeError(pos, "str subscript must be an int", << >>))
            ELSE IF subscript.n < 0 \/ subscript.n >= Len(container.s)
            THEN Raise(valueError(pos, "subscript %d out of range", <<FormatInt(subscript.n)>>))
            ELSE Ok(StrV(<<container.s[subscript.n + 1]>>))
      [] container.k = "list" ->
            IF subscript.k # "int"
            THEN Raise(typeError(pos, "list subscript must be an int", << >>))
            ELSE IF subscript.n < 0 \/ subscript.n >= lists[container.id].len
            THEN Raise(valueError(pos, "subscript %d out of range", <<FormatInt(subscript.n)>>))
            ELSE Ok(Elems(container.id)[subscript.n + 1])
      [] container.k = "map" ->
            IF subscript.k # "str"
            THEN Raise(typeError(pos, "map subscript must be a str", << >>))
            ELSE IF subscript.s \in DOMAIN maps[container.id]
            THEN Ok(maps[container.id][subscript.s])
            ELSE Raise(valueError(pos, "key not found: %q", <<subscript.s>>))
      [] OTHER ->
            Raise(typeError(pos, "can only subscript str, list, or map", << >>))

\* (*c)[s] = value, and c[s] = value
assignSubscript(pos, container, subscript, value) ==
    CASE container.k = "list" ->
            IF subscript.k # "int"
            THEN Raise(typeError(pos, "list subscript must be an int", << >>))
            ELSE IF subscript.n < 0 \/ subscript.n >= lists[container.id].len
            THEN Raise(valueError(pos, "subscript %d out of range", <<FormatInt(subscript.n)>>))
            ELSE LET h == lists[container.id]
                 IN  Result(TRUE, NilV, NoError, lists,
                            [arrays EXCEPT ![h.arr][h.off + subscript.n + 1] = value],
                            maps, stdout)
      [] container.k = "map" ->
            IF subscript.k # "str"
            THEN Raise(typeError(pos, "map subscript must be a str", << >>))
            ELSE LET m == maps[container.id]
                 IN  Result(TRUE, NilV, NoError, lists, arrays,
                            [maps EXCEPT ![container.id] =
                                [key \in DOMAIN m \cup {subscript.s} |->
                                    IF key = subscript.s THEN value ELSE m[key]]],
                            stdout)
      [] OTHER ->
            Raise(typeError(pos, "can only assign to subscript of list or map", << >>))

(***************************************************************************)
(* toString, typeName and the builtin functions (functions.go).            *)
(***************************************************************************)
HexDigit(d) ==
    IF d < 10 THEN 48 + d ELSE 87 + d

\* one byte of an ASCII string as strconv.Quote writes it
QuoteByte(c) ==
    CASE c = 34 -> <<92, 34>>
      [] c = 92 -> <<92, 92>>
      [] c = 7 -> <<92, 97>>
      [] c = 8 -> <<92, 98>>
      [] c = 12 -> <<92, 102>>
      [] c = 10 -> <<92, 110>>
      [] c = 13 -> <<92, 114>>
      [] c = 9 -> <<92, 116>>
      [] c = 11 -> <<92, 118>>
      [] c < 32 \/ c = 127 -> <<92, 120, HexDigit(c \div 16), HexDigit(c % 16)>>
      [] OTHER -> <<c>>

RECURSIVE QuoteBytes(_)
QuoteBytes(s) ==
    IF Len(s) = 0 THEN << >> ELSE QuoteByte(Head(s)) \o QuoteBytes(Tail(s))

\* fmt.Sprintf("%q", s)
Quote(s) ==
    <<34>> \o QuoteBytes(s) \o <<34>>

\* sort.Strings on a set of distinct strings
RECURSIVE SortStrings(_)
SortStrings(set) ==
    IF set = {} THEN << >>
    ELSE LET least == CHOOSE x \in set : \A y \in set \ {x} : StrLess(x, y)
         IN  <<least>> \o SortStrings(set \ {least})

\* userFunction.name and builtinFunction.name
FunctionName(v) ==
    IF v.k = "builtin" THEN <<60, 98, 117, 105, 108, 116, 105, 110, 32>> \o NameBytes(v.name) \o <<62>>
    ELSE IF funcs[v.id].Name = "" THEN <<60, 102, 117, 110, 99, 62>>
    ELSE <<60, 102, 117, 110, 99, 32>> \o NameBytes(funcs[v.id].Name) \o <<62>>

RECURSIVE toString(_, _)
toString(value, quoteStr) ==
    CASE value.k = "nil" -> <<110, 105, 108>>
      [] value.k = "bool" ->
            IF value.b THEN <<116, 114, 117, 101>> ELSE <<102, 97, 108, 115, 101>>
      [] value.k = "int" -> FormatInt(value.n)
      [] value.k = "str" -> IF quoteStr THEN Quote(value.s) ELSE value.s
      [] value.k = "list" ->
            LET elems == Elems(value.id)
            IN  <<91>> \o Join([i \in 1..Len(elems) |-> toString(elems[i], TRUE)], <<44, 32>>)
                       \o <<93>>
      [] value.k = "map" ->
            LET m == maps[value.id]
                item(key) == Quote(key) \o <<58, 32>> \o toString(m[key], TRUE)
            IN  <<123>> \o Join(SortStrings({item(key) : key \in DOMAIN m}), <<44, 32>>)
                        \o <<125>>
      [] OTHER -> FunctionName(value)

typeName(v) ==
    CASE v.k = "nil" -> <<110, 105, 108>>
      [] v.k = "bool" -> <<98, 111, 111, 108>>
      [] v.k = "int" -> <<105, 110, 116>>
      [] v.k = "str" -> <<115, 116, 114>>
      [] v.k = "list" -> <<108, 105, 115, 116>>
      [] v.k = "map" -> <<109, 97, 112>>
      [] OTHER -> <<102, 117, 110, 99>>

\* ensureNumArgs: the error it panics with
NumArgsError(pos, name, args, required) ==
    typeError(pos, "%s() requires %d arg%s, got %d",
              <<NameBytes(name), FormatInt(required), IF required # 1 THEN <<115>> ELSE << >>,
                FormatInt(Len(args))>>)

\* the capacity append() gives a slice that has to grow (runtime.growslice,
\* for the small slices of the model)
GrowCap(cap, needed) ==
    IF needed > 2 * cap THEN needed ELSE 2 * cap

\* *list = append(*list, values...)
AppendToList(id, values) ==
    LET h == lists[id]
        needed == h.len + Len(values)
    IN  IF needed <= h.cap
        THEN \* room in the backing array: written in place
             Result(TRUE, NilV, NoError,
                    [lists EXCEPT ![id].len = needed],
                    [arrays EXCEPT ![h.arr] =
                        [i \in 1..Len(@) |->
                            IF i > h.off + h.len /\ i <= h.off + needed
                            THEN values[i - h.off - h.len] ELSE @[i]]],
                    maps, stdout)
        ELSE \* a new backing array
             Result(TRUE, NilV, NoError,
                    [lists EXCEPT ![id] =
                        Header(Len(arrays) + 1, 0, needed, GrowCap(h.cap, needed))],
                    Append(arrays, Padded(Elems(id) \o values, GrowCap(h.cap, needed))),
                    maps, stdout)

appendFunc(pos, args) ==
    IF Len(args) < 1
    THEN {Raise(typeError(pos, "append() requires at least 1 arg, got %d", <<FormatInt(Len(args))>>))}
    ELSE IF args[1].k = "list" THEN {AppendToList(args[1].id, Tail(args))}
    ELSE {Raise(typeError(pos, "append() requires first argument to be list", << >>))}

RECURSIVE findElems(_, _, _)
findElems(needle, a, i) ==
    IF i > Len(a) THEN {[out |-> "false", at |-> 0 - 1]}
    ELSE LET o == evalEqual(needle, a[i])
         IN  {[out |-> x, at |-> i - 1] : x \in o \ {"false"}}
             \cup (IF "false" \in o THEN findElems(needle, a, i + 1) ELSE {})

\* strings.Index
StringIndex(s, sub) ==
    IF Contains(s, sub)
    THEN CHOOSE i \in 0..Len(s) :
            /\ SubSeq(s, i + 1, i + Len(sub)) = sub
            /\ \A j \in 0..(i - 1) : SubSeq(s, j + 1, j + Len(sub)) # sub
    ELSE 0 - 1

findFunc(pos, args) ==
    IF Len(args) # 2 THEN {Raise(NumArgsError(pos, "find", args, 2))}
    ELSE CASE args[1].k = "str" ->
                IF args[2].k = "str" THEN {Ok(IntV(StringIndex(args[1].s, args[2].s)))}
                ELSE {Raise(typeError(pos, "find() on str requires second argument to be a str", << >>))}
           [] args[1].k = "list" ->
                {IF f.out = "panic" THEN Raise(UncomparablePanic) ELSE Ok(IntV(f.at)) :
                    f \in findElems(args[2], Elems(args[1].id), 1)}
           [] OTHER ->
                {Raise(typeError(pos, "find() requires first argument to be a str or list", << >>))}

joinFunc(pos, args) ==
    IF Len(args) # 2 THEN {Raise(NumArgsError(pos, "join", args, 2))}
    ELSE IF args[2].k # "str"
    THEN {Raise(typeError(pos, "join() requires separator to be a str", << >>))}
    ELSE IF args[1].k # "list"
    THEN {Raise(typeError(pos, "join() requires first argument to be a list", << >>))}
    ELSE LET elems == Elems(args[1].id)
         IN  IF \E i \in 1..Len(elems) : elems[i].k # "str"
             THEN {Raise(typeError(pos, "join() requires all list elements to be strs", << >>))}
             ELSE {Ok(StrV(Join([i \in 1..Len(elems) |-> elems[i].s], args[2].s)))}

lenFunc(pos, args) ==
    IF Len(args) # 1 THEN {Raise(NumArgsError(pos, "len", args, 1))}
    ELSE CASE args[1].k = "str" -> {Ok(IntV(Len(args[1].s)))}
           [] args[1].k = "list" -> {Ok(IntV(lists[args[1].id].len))}
           [] args[1].k = "map" -> {Ok(IntV(Cardinality(DOMAIN maps[args[1].id])))}
           [] OTHER -> {Raise(typeError(pos, "len() requires a str, list, or map", << >>))}

\* fmt.Fprintln(interp.stdout, strs...)
printFunc(pos, args) ==
    {Result(TRUE, NilV, NoError, lists, arrays, maps,
            stdout \o Join([i \in 1..Len(args) |-> toString(args[i], FALSE)], <<32>>)
                   \o <<10>>)}

rangeFunc(pos, args) ==
    IF Len(args) # 1 THEN {Raise(NumArgsError(pos, "range", args, 1))}
    ELSE IF args[1].k # "int" THEN {Raise(typeError(pos, "range() requires an int", << >>))}
    ELSE IF args[1].n < 0
    THEN {Raise(valueError(pos, "range() argument must not be negative", << >>))}
    ELSE {OkNewList([i \in 1..args[1].n |-> IntV(i - 1)], args[1].n)}

\* a variant: slice() of a list as the Go slice (*s)[start:end], which
\* shares the backing array
SliceShared(id, start, end) ==
    Result(TRUE, ListV(Len(lists) + 1), NoError,
           Append(lists, Header(lists[id].arr, lists[id].off + start, end - start,
                                lists[id].cap - start)),
           arrays, maps, stdout)

\* slice() of a list: make([]Value, end-start), then copy
SliceList(id, start, end) ==
    OkNewList(SubSeq(Elems(id), start + 1, end), end - start)

sliceFunc(pos, args) ==
    IF Len(args) # 3 THEN {Raise(NumArgsError(pos, "slice", args, 3))}
    ELSE IF args[2].k # "int" \/ args[3].k # "int"
    THEN {Raise(typeError(pos, "slice() requires start and end to be ints", << >>))}
    ELSE LET start == args[2].n
             end == args[3].n
         IN  CASE args[1].k = "str" ->
                    IF start < 0 \/ end > Len(args[1].s) \/ start > end
                    THEN {Raise(valueError(pos, "slice() start or end out of bounds", << >>))}
                    ELSE {Ok(StrV(SubSeq(args[1].s, start + 1, end)))}
               [] args[1].k = "list" ->
                    IF start < 0 \/ end > lists[args[1].id].len \/ start > end
                    THEN {Raise(valueError(pos, "slice() start or end out of bounds", << >>))}
                    ELSE {SliceList(args[1].id, start, end)}
               [] OTHER ->
                    {Raise(typeError(pos, "slice() requires first argument to be a str or list", << >>))}

Swap(a, i, j) ==
    [a EXCEPT ![i] = a[j], ![j] = a[i]]

\* sort.SliceStable on at most 20 elements is an insertion sort; less is
\* evalLess, which can panic in the middle of it
RECURSIVE insertionSort(_, _, _)
insertionSort(a, i, j) ==
    IF i > Len(a) THEN {[elems |-> a, out |-> "done"]}
    ELSE IF j <= 1 THEN insertionSort(a, i + 1, i + 1)
    ELSE UNION {CASE o = "true" -> insertionSort(Swap(a, j, j - 1), i, j - 1)
                  [] o = "false" -> insertionSort(a, i + 1, i + 1)
                  [] OTHER -> {[elems |-> a, out |-> o]} :
                o \in evalLess(a[j], a[j - 1])}

\* the elements of list id overwritten in place
StoreElems(id, elems) ==
    LET h == lists[id]
    IN  [arrays EXCEPT ![h.arr] =
            [i \in 1..Len(@) |->
                IF i > h.off /\ i <= h.off + h.len THEN elems[i - h.off] ELSE @[i]]]

\* sort() without a key function, and the argument checks of sort()
sortFunc(pos, args) ==
    IF Len(args) # 1 /\ Len(args) # 2
    THEN {Raise(typeError(pos, "sort() requires 1 or 2 args, got %d", <<FormatInt(Len(args))>>))}
    ELSE IF args[1].k # "list"
    THEN {Raise(typeError(pos, "sort() requires first argument to be a list", << >>))}
    ELSE IF lists[args[1].id].len <= 1 THEN {Ok(NilV)}
    ELSE IF Len(args) = 1
    THEN {Result(s.out = "done", NilV,
                 CASE s.out = "done" -> NoError
                   [] s.out = "panic" -> UncomparablePanic
                   [] OTHER -> ComparisonError(pos),
                 lists, StoreElems(args[1].id, s.elems), maps, stdout) :
            s \in insertionSort(Elems(args[1].id), 2, 2)}
    ELSE {Raise(typeError(pos, "sort() requires second argument to be a function", << >>))}

\* unicode.IsSpace on an ASCII byte
IsSpace(c) ==
    c \in {9, 10, 11, 12, 13, 32}

\* strings.Fields
RECURSIVE Fields(_)
Fields(s) ==
    IF Len(s) = 0 THEN << >>
    ELSE IF IsSpace(s[1]) THEN Fields(Tail(s))
    ELSE LET n == IF \E i \in 1..Len(s) : IsSpace(s[i])
                  THEN (CHOOSE i \in 1..Len(s) :
                           IsSpace(s[i]) /\ \A j \in 1..(i - 1) : ~IsSpace(s[j])) - 1
                  ELSE Len(s)
         IN  <<SubSeq(s, 1, n)>> \o Fields(SubSeq(s, n + 1, Len(s)))

\* strings.Split; an empty separator splits after every character
RECURSIVE Split(_, _)
Split(s, sep) ==
    IF Len(sep) = 0 THEN [i \in 1..Len(s) |-> <<s[i]>>]
    ELSE IF ~Contains(s, sep) THEN <<s>>
    ELSE <<SubSeq(s, 1, StringIndex(s, sep))>>
         \o Split(SubSeq(s, StringIndex(s, sep) + Len(sep) + 1, Len(s)), sep)

stringsToList(strings) ==
    OkNewList([i \in 1..Len(strings) |-> StrV(strings[i])], Len(strings))

splitFunc(pos, args) ==
    IF Len(args) # 2 THEN {Raise(NumArgsError(pos, "split", args, 2))}
    ELSE IF args[1].k # "str"
    THEN {Raise(typeError(pos, "split() requires first argument to be a str", << >>))}
    ELSE IF args[2].k = "nil" THEN {stringsToList(Fields(args[1].s))}
    ELSE IF args[2].k = "str" THEN {stringsToList(Split(args[1].s, args[2].s))}
    ELSE {Raise(typeError(pos, "split() requires separator to be a str or nil", << >>))}

strFunc(pos, args) ==
    IF Len(args) # 1 THEN {Raise(NumArgsError(pos, "str", args, 1))}
    ELSE {Ok(StrV(toString(args[1], FALSE)))}

typeFunc(pos, args) ==
    IF Len(args) # 1 THEN {Raise(NumArgsError(pos, "type", args, 1))}
    ELSE {Ok(StrV(typeName(args[1])))}

\* the builtins of the model; sort() with a key function calls back into
\* the interpreter and is an action of its own
BuiltinNames ==
    {"append", "find", "join", "len", "print", "range", "slice", "sort", "split", "str",
     "type"}

builtins(name, pos, args) ==
    CASE name = "append" -> appendFunc(pos, args)
      [] name = "find" -> findFunc(pos, args)
      [] name = "join" -> joinFunc(pos, args)
      [] name = "len" -> lenFunc(pos, args)
      [] name = "print" -> printFunc(pos, args)
      [] name = "range" -> rangeFunc(pos, args)
      [] name = "slice" -> sliceFunc(pos, args)
      [] name = "sort" -> sortFunc(pos, args)
      [] name = "split" -> splitFunc(pos, args)
      [] name = "str" -> strFunc(pos, args)
      [] name = "type" -> typeFunc(pos, args)

(***************************************************************************)
(* The tokenizer (tokenizer.go).  A Token is named by its String(): "+",   *)
(* "name", "EOF".  The inputs hold ASCII bytes, one byte one rune, and the *)
(* byte 255, which is not UTF-8.  A message is kept as its format and its  *)
(* arguments.                                                              *)
(***************************************************************************)
Msg(format, args) ==
    [format |-> format, args |-> args]

NoMsg ==
    Msg("", << >>)

\* utf8.RuneError, the rune DecodeRune gives for bytes that are not UTF-8
RuneError ==
    65533

\* utf8.DecodeRune(input[offset:]) on such inputs
DecodeRune(input, offset) ==
    IF offset >= Len(input) THEN [ch |-> RuneError, size |-> 0]
    ELSE IF input[offset + 1] >= 128 THEN [ch |-> RuneError, size |-> 1]
    ELSE [ch |-> input[offset + 1], size |-> 1]

\* Tokenizer.next with a newline that goes back to column 1 of the same line
nextSameLine(t) ==
    LET d == DecodeRune(t.input, t.offset)
        t1 == [t EXCEPT !.pos = t.nextPos]
    IN  IF d.size = 0 THEN [t1 EXCEPT !.ch = 0 - 1]
        ELSE IF d.ch = RuneError
        THEN [t1 EXCEPT !.ch = 0 - 1,
                        !.errorMsg = Msg("invalid UTF-8 byte 0x%02x", <<t.input[t.offset + 1]>>)]
        ELSE [t1 EXCEPT !.ch = d.ch,
                        !.offset = @ + d.size,
                        !.nextPos = IF d.ch = 10 THEN P(@.Line, 1)
                                    ELSE P(@.Line, @.Column + 1)]

\* Tokenizer.next
next(t) ==
    LET d == DecodeRune(t.input, t.offset)
        t1 == [t EXCEPT !.pos = t.nextPos]
    IN  IF d.size = 0 THEN [t1 EXCEPT !.ch = 0 - 1]
        ELSE IF d.ch = RuneError
        THEN [t1 EXCEPT !.ch = 0 - 1,
                        !.errorMsg = Msg("invalid UTF-8 byte 0x%02x", <<t.input[t.offset + 1]>>)]
        ELSE [t1 EXCEPT !.ch = d.ch,
                        !.offset = @ + d.size,
                        !.nextPos = IF d.ch = 10 THEN P(@.Line + 1, 1)
                                    ELSE P(@.Line, @.Column + 1)]

NewTokenizer(input) ==
    next([input |-> input, offset |-> 0, ch |-> 0, errorMsg |-> NoMsg,
          pos |-> P(0, 0), nextPos |-> P(1, 1)])

\* the loop over ' ', '\t', '\r' and '\n'
RECURSIVE skipWhitespace(_)
skipWhitespace(t) ==
    IF t.ch \in {32, 9, 13, 10} THEN skipWhitespace(next(t)) ELSE t

\* the loop to the end of the line or of the input
RECURSIVE skipComment(_)
skipComment(t) ==
    IF t.ch # 10 /\ t.ch >= 0 THEN skipComment(next(t)) ELSE t

RECURSIVE skipWhitespaceAndComments(_)
skipWhitespaceAndComments(t) ==
    LET t1 == skipWhitespace(t)
    IN  IF ~(t1.ch = 47 /\ t1.offset < Len(t1.input) /\ t1.input[t1.offset + 1] = 47)
        THEN t1
        ELSE skipWhitespaceAndComments(next(skipComment(next(next(t1)))))

isNameStart(ch) ==
    ch = 95 \/ (ch >= 97 /\ ch <= 122) \/ (ch >= 65 /\ ch <= 90)

isDigit(ch) ==
    ch >= 48 /\ ch <= 57

keywordTokens(name) ==
    CASE name = <<97, 110, 100>> -> "and"
      [] name = <<101, 108, 115, 101>> -> "else"
      [] name = <<102, 97, 108, 115, 101>> -> "false"
      [] name = <<102, 111, 114>> -> "for"
      [] name = <<102, 117, 110, 99>> -> "func"
      [] name = <<105, 102>> -> "if"
      [] name = <<105, 110>> -> "in"
      [] name = <<110, 105, 108>> -> "nil"
      [] name = <<110, 111, 116>> -> "not"
      [] name = <<111, 114>> -> "or"
      [] name = <<114, 101, 116, 117, 114, 110>> -> "return"
      [] name = <<116, 114, 117, 101>> -> "true"
      [] name = <<119, 104, 105, 108, 101>> -> "while"
      [] OTHER -> "name"

\* what Next() returns, and the tokenizer after the call
Token(t, pos, tok, val) ==
    [t |-> t, pos |-> pos, tok |-> tok, val |-> val]

\* the loop over the runes of a name
RECURSIVE scanName(_, _)
scanName(t, runes) ==
    IF isNameStart(t.ch) \/ isDigit(t.ch) THEN scanName(next(t), Append(runes, t.ch))
    ELSE [t |-> t, runes |-> runes]

\* the loop over the digits of a number
RECURSIVE scanInt(_, _)
scanInt(t, runes) ==
    IF isDigit(t.ch) THEN scanInt(next(t), Append(runes, t.ch))
    ELSE [t |-> t, runes |-> runes]

\* the loop over the runes of a string, after the opening quote
RECURSIVE scanString(_, _, _)
scanString(t, pos, runes) ==
    IF t.ch = 34 THEN Token(next(t), pos, "str", runes)
    ELSE IF t.ch < 0 THEN Token(t, pos, "ILLEGAL", Msg("didn't find end quote in string", << >>))
    ELSE IF t.ch = 13 \/ t.ch = 10
    THEN Token(t, pos, "ILLEGAL", Msg("can't have newline in string", << >>))
    ELSE IF t.ch = 92
    THEN LET t1 == next(t)
         IN  CASE t1.ch = 34 \/ t1.ch = 92 -> scanString(next(t1), pos, Append(runes, t1.ch))
               [] t1.ch = 116 -> scanString(next(t1), pos, Append(runes, 9))
               [] t1.ch = 114 -> scanString(next(t1), pos, Append(runes, 13))
               [] t1.ch = 110 -> scanString(next(t1), pos, Append(runes, 10))
               [] OTHER -> Token(t1, pos, "ILLEGAL", Msg("invalid string escape \\%c", <<t1.ch>>))
    ELSE scanString(next(t), pos, Append(runes, t.ch))

\* Next() at a token: t is at its first character and t1 after it
scanToken(t, t1) ==
    LET pos == t.pos
        ch == t.ch
        Single(tok) == Token(t1, pos, tok, << >>)
        Double(tok, single) == IF t1.ch = 61 THEN Token(next(t1), pos, tok, << >>) ELSE single
    IN  IF isNameStart(ch)
        THEN LET s == scanName(t1, <<ch>>)
             IN  Token(s.t, pos, keywordTokens(s.runes),
                       IF keywordTokens(s.runes) = "name" THEN s.runes ELSE << >>)
        ELSE CASE ch = 58 -> Single(":")
          [] ch = 44 -> Single(",")
          [] ch = 47 -> Single("/")
          [] ch = 123 -> Single("{")
          [] ch = 91 -> Single("[")
          [] ch = 40 -> Single("(")
          [] ch = 45 -> Single("-")
          [] ch = 37 -> Single("%")
          [] ch = 43 -> Single("+")
          [] ch = 125 -> Single("}")
          [] ch = 93 -> Single("]")
          [] ch = 41 -> Single(")")
          [] ch = 42 -> Single("*")
          [] ch = 61 -> Double("==", Single("="))
          [] ch = 33 -> Double("!=", Token(t1, pos, "ILLEGAL",
                                           Msg("expected != instead of !%c", <<t1.ch>>)))
          [] ch = 60 -> Double("<=", Single("<"))
          [] ch = 62 -> Double(">=", Single(">"))
          [] ch = 46 ->
                IF t1.ch = 46
                THEN IF next(t1).ch # 46
                     THEN Token(next(t1), pos, "ILLEGAL", Msg("unexpected ..", << >>))
                     ELSE Token(next(next(t1)), pos, "...", << >>)
                ELSE Single(".")
          [] isDigit(ch) ->
                LET s == scanInt(t1, <<ch>>)
                IN  Token(s.t, pos, "int", s.runes)
          [] ch = 34 -> scanString(t1, pos, << >>)
          [] OTHER -> Token(t1, pos, "ILLEGAL", Msg("unexpected %c", <<ch>>))


\* Next() after the white space and the comments
afterWhitespace(t) ==
    IF t.ch < 0
    THEN IF t.errorMsg # NoMsg THEN Token(t, t.pos, "ILLEGAL", t.errorMsg)
         ELSE Token(t, t.pos, "EOF", << >>)
    ELSE scanToken(t, next(t))

\* a variant: Next() steps over a byte that is not UTF-8 once it has
\* returned ILLEGAL before it
NextTokenOverInvalid(t0) ==
    LET k == afterWhitespace(skipWhitespaceAndComments(t0))
    IN  IF k.tok = "ILLEGAL" /\ k.t.ch < 0 /\ k.t.offset < Len(k.t.input)
        THEN [k EXCEPT !.t = next([k.t EXCEPT !.offset = @ + 1, !.errorMsg = NoMsg])]
        ELSE k

\* Tokenizer.Next()
NextToken(t0) ==
    afterWhitespace(skipWhitespaceAndComments(t0))
(***************************************************************************)
(* The parser (parser.go): recursive descent on the tokens.  A parse       *)
(* function takes the parser p and gives Parsed(p, v), the parser after it *)
(* and its value, or Failed(e), the value it panics with.  Names and the   *)
(* values of literals are the byte strings of the tokens.                  *)
(***************************************************************************)
Parsed(p, v) ==
    [failed |-> FALSE, p |-> p, v |-> v]

Failed(e) ==
    [failed |-> TRUE, e |-> e]

\* parser.Error{position, message}
Error(pos, format, args) ==
    [kind |-> "parse error", pos |-> pos, format |-> format, args |-> args]

(***************************************************************************)
(* A method whose result the caller keeps under a name is called through   *)
(* parse(method, args), the call of a method by its name.                  *)
(***************************************************************************)
RECURSIVE parse(_, _)

\* what parser.next does with the token k it got from the tokenizer
tokenOrError(k) ==
    IF k.tok = "ILLEGAL" THEN Failed(Error(k.pos, k.val.format, k.val.args))
    ELSE Parsed([tokenizer |-> k.t, pos |-> k.pos, tok |-> k.tok, val |-> k.val], NilV)

\* parser.next
parserNext(p) ==
    tokenOrError(NextToken(p.tokenizer))

\* parser.expect
expect(p, tok) ==
    IF p.tok # tok THEN Failed(Error(p.pos, "expected %s and not %s", <<tok, p.tok>>))
    ELSE parse("parserNext", <<p>>)

\* the digits of val without the zeros in front
RECURSIVE StripZeros(_)
StripZeros(val) ==
    IF Len(val) > 1 /\ Head(val) = 48 THEN StripZeros(Tail(val)) ELSE val

\* the digits of 1<<63 - 1, the largest int
MaxInt64Digits ==
    <<57, 50, 50, 51, 51, 55, 50, 48, 51, 54, 56, 53, 52, 55, 55, 53, 56, 48, 55>>

RECURSIVE DigitsValue(_)
DigitsValue(val) ==
    IF Len(val) = 0 THEN 0 ELSE 10 * DigitsValue(Front(val)) + (Last(val) - 48)

\* strconv.Atoi on a string of digits: an error when the value is above
\* 1<<63 - 1 (the values in range of the inputs are small)
Atoi(val) ==
    LET s == StripZeros(val)
    IN  IF Len(s) > 19 \/ (Len(s) = 19 /\ StrLess(MaxInt64Digits, s))
        THEN [ok |-> FALSE, n |-> 0]
        ELSE [ok |-> TRUE, n |-> DigitsValue(s)]

RECURSIVE binary(_, _, _)
RECURSIVE binaryLoop(_, _, _, _)
RECURSIVE binaryRight(_, _, _)
RECURSIVE not_(_)
RECURSIVE negative(_)
RECURSIVE call(_)
RECURSIVE callLoop(_, _)
RECURSIVE arguments(_, _, _, _)
RECURSIVE primary(_)
RECURSIVE listLoop(_, _, _)
RECURSIVE mapLoop(_, _, _)
RECURSIVE statements(_, _, _)
RECURSIVE statement(_)
RECURSIVE block(_)
RECURSIVE if_(_)
RECURSIVE functionBody(_)

\* the loop of parser.binary
binaryLoop(parseFunc, operators, p, expr) ==
    IF p.tok \notin operators THEN Parsed(p, expr)
    ELSE LET r1 == parse("parserNext", <<p>>)
         IN  IF r1.failed THEN r1
             ELSE LET r2 == parse(parseFunc, <<r1.p>>)
                  IN  IF r2.failed THEN r2
                      ELSE binaryLoop(parseFunc, operators, r2.p,
                                      Binary(p.pos, expr, p.tok, r2.v))

\* a variant of parser.binary: the operators associate to the right
binaryRight(parseFunc, operators, p) ==
    LET r == parse(parseFunc, <<p>>)
    IN  IF r.failed THEN r
        ELSE IF r.p.tok \notin operators THEN r
        ELSE LET r1 == parse("parserNext", <<r.p>>)
             IN  IF r1.failed THEN r1
                 ELSE LET r2 == binaryRight(parseFunc, operators, r1.p)
                      IN  IF r2.failed THEN r2
                          ELSE Parsed(r2.p, Binary(r.p.pos, r.v, r.p.tok, r2.v))

\* parser.binary: parseFunc is the name of the method it is given
binary(parseFunc, operators, p) ==
    LET r == parse(parseFunc, <<p>>)
    IN  IF r.failed THEN r ELSE binaryLoop(parseFunc, operators, r.p, r.v)

\* expression = and (OR and)*
expression(p) ==
    binary("and_", {"or"}, p)

\* and = not (AND not)*
and_(p) ==
    binary("not_", {"and"}, p)

\* equality = comparison ((EQUAL | NOTEQUAL) comparison)*
equality(p) ==
    binary("comparison", {"==", "!="}, p)

\* comparison = addition ((LT | LTE | GT | GTE | IN) addition)*
comparison(p) ==
    binary("addition", {"<", "<=", ">", ">=", "in"}, p)

\* addition = multiply ((PLUS | MINUS) multiply)*
addition(p) ==
    binary("multiply", {"+", "-"}, p)

\* multiply = negative ((TIMES | DIVIDE | MODULO) negative)*
multiply(p) ==
    binary("negative", {"*", "/", "%"}, p)

\* not = NOT not | equality
not_(p) ==
    IF p.tok = "not"
    THEN LET r1 == parse("parserNext", <<p>>)
         IN  IF r1.failed THEN r1
             ELSE LET r2 == parse("not_", <<r1.p>>)
                  IN  IF r2.failed THEN r2 ELSE Parsed(r2.p, Unary(p.pos, "not", r2.v))
    ELSE equality(p)

\* negative = MINUS negative | call
negative(p) ==
    IF p.tok = "-"
    THEN LET r1 == parse("parserNext", <<p>>)
         IN  IF r1.failed THEN r1
             ELSE LET r2 == parse("negative", <<r1.p>>)
                  IN  IF r2.failed THEN r2 ELSE Parsed(r2.p, Unary(p.pos, "-", r2.v))
    ELSE call(p)

\* after an element of a list of arguments, items or parameters: the comma
afterComma(p) ==
    IF p.tok = "," THEN parse("parserNext", <<p>>) ELSE Parsed(p, NilV)

\* a variant of the loop over the arguments: it goes on after a ...
argumentsAfterEllipsis(p, args, gotComma, gotEllipsis) ==
    IF p.tok # ")" /\ p.tok # "EOF"
    THEN IF ~gotComma THEN Failed(Error(p.pos, "expected , between arguments", << >>))
         ELSE LET r1 == parse("expression", <<p>>)
              IN  IF r1.failed THEN r1
                  ELSE LET r2 == IF r1.p.tok = "..." THEN parse("parserNext", <<r1.p>>) ELSE r1
                       IN  IF r2.failed THEN r2
                           ELSE LET r3 == parse("afterComma", <<r2.p>>)
                                IN  IF r3.failed THEN r3
                                    ELSE arguments(r3.p, Append(args, r1.v), r2.p.tok = ",",
                                                   gotEllipsis \/ r1.p.tok = "...")
    ELSE LET r == parse("expect", <<p, ")">>)
         IN  IF r.failed THEN r ELSE Parsed(r.p, [args |-> args, ellipsis |-> gotEllipsis])

\* the loop over the arguments of a call, and the closing parenthesis
arguments(p, args, gotComma, gotEllipsis) ==
    IF p.tok # ")" /\ p.tok # "EOF" /\ ~gotEllipsis
    THEN IF ~gotComma THEN Failed(Error(p.pos, "expected , between arguments", << >>))
         ELSE LET r1 == parse("expression", <<p>>)
              IN  IF r1.failed THEN r1
                  ELSE LET r2 == IF r1.p.tok = "..." THEN parse("parserNext", <<r1.p>>) ELSE r1
                       IN  IF r2.failed THEN r2
                           ELSE LET r3 == parse("afterComma", <<r2.p>>)
                                IN  IF r3.failed THEN r3
                                    ELSE arguments(r3.p, Append(args, r1.v),
                                                   r2.p.tok = ",", r1.p.tok = "...")
    ELSE IF p.tok # ")" /\ gotEllipsis
    THEN Failed(Error(p.pos, "can only have ... after last argument", << >>))
    ELSE LET r == parse("expect", <<p, ")">>)
         IN  IF r.failed THEN r ELSE Parsed(r.p, [args |-> args, ellipsis |-> gotEllipsis])

\* call = primary (args | subscript | dot)*
call(p) ==
    LET r == parse("primary", <<p>>)
    IN  IF r.failed THEN r ELSE callLoop(r.p, r.v)

callLoop(p, expr) ==
    CASE p.tok = "(" ->
            LET r1 == parse("parserNext", <<p>>)
            IN  IF r1.failed THEN r1
                ELSE LET r2 == parse("arguments", <<r1.p, << >>, TRUE, FALSE>>)
                     IN  IF r2.failed THEN r2
                         ELSE callLoop(r2.p, Call(p.pos, expr, r2.v.args, r2.v.ellipsis))
      [] p.tok = "[" ->
            LET r1 == parse("parserNext", <<p>>)
            IN  IF r1.failed THEN r1
                ELSE LET r2 == parse("expression", <<r1.p>>)
                     IN  IF r2.failed THEN r2
                         ELSE LET r3 == parse("expect", <<r2.p, "]">>)
                              IN  IF r3.failed THEN r3
                                  ELSE callLoop(r3.p, Subscript(p.pos, expr, r2.v))
      [] p.tok = "." ->
            LET r1 == parse("parserNext", <<p>>)
            IN  IF r1.failed THEN r1
                ELSE LET r2 == parse("expect", <<r1.p, "name">>)
                     IN  IF r2.failed THEN r2
                         ELSE callLoop(r2.p, Subscript(p.pos, expr,
                                                       Literal(r1.p.pos, StrV(r1.p.val))))
      [] OTHER -> Parsed(p, expr)

\* a token that is a literal by itself
keywordLiteral(p, value) ==
    LET r == parse("parserNext", <<p>>)
    IN  IF r.failed THEN r ELSE Parsed(r.p, Literal(p.pos, value))

\* the loop of parser.list, and the closing bracket
listLoop(p, values, gotComma) ==
    IF p.tok # "]" /\ p.tok # "EOF"
    THEN IF ~gotComma THEN Failed(Error(p.pos, "expected , between list elements", << >>))
         ELSE LET r1 == parse("expression", <<p>>)
              IN  IF r1.failed THEN r1
                  ELSE LET r2 == parse("afterComma", <<r1.p>>)
                       IN  IF r2.failed THEN r2
                           ELSE listLoop(r2.p, Append(values, r1.v), r1.p.tok = ",")
    ELSE LET r == parse("expect", <<p, "]">>)
         IN  IF r.failed THEN r ELSE Parsed(r.p, values)

\* list = LBRACKET RBRACKET | LBRACKET expression (COMMA expression)* COMMA? RBRACKET
list_(p) ==
    LET r1 == parse("expect", <<p, "[">>)
    IN  IF r1.failed THEN r1
        ELSE LET r2 == parse("listLoop", <<r1.p, << >>, TRUE>>)
             IN  IF r2.failed THEN r2 ELSE Parsed(r2.p, List(p.pos, r2.v))

\* the loop of parser.map_, and the closing brace
mapLoop(p, items, gotComma) ==
    IF p.tok # "}" /\ p.tok # "EOF"
    THEN IF ~gotComma THEN Failed(Error(p.pos, "expected , between map items", << >>))
         ELSE LET r1 == parse("expression", <<p>>)
              IN  IF r1.failed THEN r1
                  ELSE LET r2 == parse("expect", <<r1.p, ":">>)
                       IN  IF r2.failed THEN r2
                           ELSE LET r3 == parse("expression", <<r2.p>>)
                                IN  IF r3.failed THEN r3
                                    ELSE LET r4 == parse("afterComma", <<r3.p>>)
                                         IN  IF r4.failed THEN r4
                                             ELSE mapLoop(r4.p,
                                                          Append(items, MapItem(r1.v, r3.v)),
                                                          r3.p.tok = ",")
    ELSE LET r == parse("expect", <<p, "}">>)
         IN  IF r.failed THEN r ELSE Parsed(r.p, items)

map_(p) ==
    LET r1 == parse("expect", <<p, "{">>)
    IN  IF r1.failed THEN r1
        ELSE LET r2 == parse("mapLoop", <<r1.p, << >>, TRUE>>)
             IN  IF r2.failed THEN r2 ELSE Parsed(r2.p, Map(p.pos, r2.v))

\* the loop over the parameters, and the closing parenthesis
RECURSIVE paramsLoop(_, _, _, _)
paramsLoop(p, names, gotComma, gotEllipsis) ==
    IF p.tok # ")" /\ p.tok # "EOF" /\ ~gotEllipsis
    THEN IF ~gotComma THEN Failed(Error(p.pos, "expected , between parameters", << >>))
         ELSE LET r1 == parse("expect", <<p, "name">>)
              IN  IF r1.failed THEN r1
                  ELSE LET r2 == IF r1.p.tok = "..." THEN parse("parserNext", <<r1.p>>) ELSE r1
                       IN  IF r2.failed THEN r2
                           ELSE LET r3 == parse("afterComma", <<r2.p>>)
                                IN  IF r3.failed THEN r3
                                    ELSE paramsLoop(r3.p, Append(names, p.val),
                                                    r2.p.tok = ",", r1.p.tok = "...")
    ELSE IF p.tok # ")" /\ gotEllipsis
    THEN Failed(Error(p.pos, "can only have ... after last parameter", << >>))
    ELSE LET r == parse("expect", <<p, ")">>)
         IN  IF r.failed THEN r ELSE Parsed(r.p, [names |-> names, ellipsis |-> gotEllipsis])

\* params = LPAREN RPAREN | LPAREN NAME (COMMA NAME)* ELLIPSIS? COMMA? RPAREN
params(p) ==
    LET r == parse("expect", <<p, "(">>)
    IN  IF r.failed THEN r ELSE paramsLoop(r.p, << >>, TRUE, FALSE)

\* params block, as the three places that parse a function do
functionBody(p) ==
    LET r1 == parse("params", <<p>>)
    IN  IF r1.failed THEN r1
        ELSE LET r2 == parse("block", <<r1.p>>)
             IN  IF r2.failed THEN r2
                 ELSE Parsed(r2.p, [params |-> r1.v.names, ellipsis |-> r1.v.ellipsis,
                                    body |-> r2.v])

\* primary = NAME | INT | STR | TRUE | FALSE | NIL | list | map |
\*           FUNC params block | LPAREN expression RPAREN
primary(p) ==
    CASE p.tok = "name" ->
            LET r == parse("parserNext", <<p>>)
            IN  IF r.failed THEN r ELSE Parsed(r.p, Variable(p.pos, p.val))
      [] p.tok = "int" ->
            LET r == parse("parserNext", <<p>>)
            IN  IF r.failed THEN r
                ELSE IF ~Atoi(p.val).ok
                THEN Failed(goPanic("tokenizer gave INT token that isn't an int: %s"))
                ELSE Parsed(r.p, Literal(p.pos, IntV(Atoi(p.val).n)))
      [] p.tok = "str" -> keywordLiteral(p, StrV(p.val))
      [] p.tok = "true" -> keywordLiteral(p, BoolV(TRUE))
      [] p.tok = "false" -> keywordLiteral(p, BoolV(FALSE))
      [] p.tok = "nil" -> keywordLiteral(p, NilV)
      [] p.tok = "[" -> list_(p)
      [] p.tok = "{" -> map_(p)
      [] p.tok = "func" ->
            LET r1 == parse("parserNext", <<p>>)
            IN  IF r1.failed THEN r1
                ELSE LET r2 == parse("functionBody", <<r1.p>>)
                     IN  IF r2.failed THEN r2
                         ELSE Parsed(r2.p, FunctionExpression(p.pos, r2.v.params,
                                                              r2.v.ellipsis, r2.v.body))
      [] p.tok = "(" ->
            LET r1 == parse("parserNext", <<p>>)
            IN  IF r1.failed THEN r1
                ELSE LET r2 == parse("expression", <<r1.p>>)
                     IN  IF r2.failed THEN r2
                         ELSE LET r3 == parse("expect", <<r2.p, ")">>)
                              IN  IF r3.failed THEN r3 ELSE Parsed(r3.p, r2.v)
      [] OTHER -> Failed(Error(p.pos, "expected expression, not %s", <<p.tok>>))

\* the loop of parser.statements
statements(p, end, block_) ==
    IF p.tok # end /\ p.tok # "EOF"
    THEN LET r == parse("statement", <<p>>)
         IN  IF r.failed THEN r ELSE statements(r.p, end, Append(block_, r.v))
    ELSE Parsed(p, block_)

\* block = LBRACE statement* RBRACE
block(p) ==
    LET r1 == parse("expect", <<p, "{">>)
    IN  IF r1.failed THEN r1
        ELSE LET r2 == parse("statements", <<r1.p, "}", << >>>>)
             IN  IF r2.failed THEN r2
                 ELSE LET r3 == parse("expect", <<r2.p, "}">>)
                      IN  IF r3.failed THEN r3 ELSE Parsed(r3.p, r2.v)

\* the else part of an if statement
elseBody(p) ==
    IF p.tok # "else" THEN Parsed(p, << >>)
    ELSE LET r1 == parse("parserNext", <<p>>)
         IN  IF r1.failed THEN r1
             ELSE CASE r1.p.tok = "{" -> block(r1.p)
                    [] r1.p.tok = "if" ->
                          LET r2 == parse("if_", <<r1.p>>)
                          IN  IF r2.failed THEN r2 ELSE Parsed(r2.p, <<r2.v>>)
                    [] OTHER -> Failed(Error(r1.p.pos, "expected { or if after else, not %s",
                                             <<r1.p.tok>>))

\* a keyword, an expression and a block
conditionBlock(p, keyword) ==
    LET r1 == parse("expect", <<p, keyword>>)
    IN  IF r1.failed THEN r1
        ELSE LET r2 == parse("expression", <<r1.p>>)
             IN  IF r2.failed THEN r2
                 ELSE LET r3 == parse("block", <<r2.p>>)
                      IN  IF r3.failed THEN r3
                          ELSE Parsed(r3.p, [condition |-> r2.v, body |-> r3.v])

\* if = IF expression block | IF expression block ELSE block |
\*      IF expression block ELSE if
if_(p) ==
    LET r1 == parse("conditionBlock", <<p, "if">>)
    IN  IF r1.failed THEN r1
        ELSE LET r2 == parse("elseBody", <<r1.p>>)
             IN  IF r2.failed THEN r2
                 ELSE Parsed(r2.p, If(p.pos, r1.v.condition, r1.v.body, r2.v))

\* while = WHILE expression block
while(p) ==
    LET r == parse("conditionBlock", <<p, "while">>)
    IN  IF r.failed THEN r ELSE Parsed(r.p, While(p.pos, r.v.condition, r.v.body))

\* for = FOR NAME IN expression block
for_(p) ==
    LET r1 == parse("expect", <<p, "for">>)
    IN  IF r1.failed THEN r1
        ELSE LET r2 == parse("expect", <<r1.p, "name">>)
             IN  IF r2.failed THEN r2
                 ELSE LET r3 == parse("conditionBlock", <<r2.p, "in">>)
                      IN  IF r3.failed THEN r3
                          ELSE Parsed(r3.p, For(p.pos, r1.p.val, r3.v.condition, r3.v.body))

\* return = RETURN expression
return_(p) ==
    LET r1 == parse("expect", <<p, "return">>)
    IN  IF r1.failed THEN r1
        ELSE LET r2 == parse("expression", <<r1.p>>)
             IN  IF r2.failed THEN r2 ELSE Parsed(r2.p, Return(p.pos, r2.v))

\* func = FUNC NAME params block | FUNC params block
func_(p) ==
    LET r1 == parse("expect", <<p, "func">>)
    IN  IF r1.failed THEN r1
        ELSE IF r1.p.tok = "name"
        THEN LET r2 == parse("parserNext", <<r1.p>>)
             IN  IF r2.failed THEN r2
                 ELSE LET r3 == parse("functionBody", <<r2.p>>)
                      IN  IF r3.failed THEN r3
                          ELSE Parsed(r3.p, FunctionDefinition(p.pos, r1.p.val, r3.v.params,
                                                               r3.v.ellipsis, r3.v.body))
        ELSE LET r3 == parse("functionBody", <<r1.p>>)
             IN  IF r3.failed THEN r3
                 ELSE Parsed(r3.p, ExpressionStatement(p.pos,
                                       FunctionExpression(p.pos, r3.v.params,
                                                          r3.v.ellipsis, r3.v.body)))

\* statement = if | while | for | return | func | assign | expression
statement(p) ==
    CASE p.tok = "if" -> if_(p)
      [] p.tok = "while" -> while(p)
      [] p.tok = "for" -> for_(p)
      [] p.tok = "return" -> return_(p)
      [] p.tok = "func" -> func_(p)
      [] OTHER ->
            LET r1 == parse("expression", <<p>>)
            IN  IF r1.failed THEN r1
                ELSE IF r1.p.tok # "=" THEN Parsed(r1.p, ExpressionStatement(p.pos, r1.v))
                ELSE IF r1.v.t \notin {"Variable", "Subscript"}
                THEN Failed(Error(r1.p.pos,
                        "expected name, subscript, or dot expression on left side of =", << >>))
                ELSE LET r2 == parse("parserNext", <<r1.p>>)
                     IN  IF r2.failed THEN r2
                         ELSE LET r3 == parse("expression", <<r2.p>>)
                              IN  IF r3.failed THEN r3
                                  ELSE Parsed(r3.p, Assign(r1.p.pos, r1.v, r3.v))

\* program = statement*
program(p) ==
    statements(p, "EOF", << >>)

\* the call of a method of the parser
parse(method, args) ==
    CASE method = "parserNext" -> parserNext(args[1])
      [] method = "expect" -> expect(args[1], args[2])
      [] method = "afterComma" -> afterComma(args[1])
      [] method = "expression" -> expression(args[1])
      [] method = "and_" -> and_(args[1])
      [] method = "comparison" -> comparison(args[1])
      [] method = "addition" -> addition(args[1])
      [] method = "multiply" -> multiply(args[1])
      [] method = "not_" -> not_(args[1])
      [] method = "negative" -> negative(args[1])
      [] method = "arguments" -> arguments(args[1], args[2], args[3], args[4])
      [] method = "listLoop" -> listLoop(args[1], args[2], args[3])
      [] method = "mapLoop" -> mapLoop(args[1], args[2], args[3])
      [] method = "params" -> params(args[1])
      [] method = "functionBody" -> functionBody(args[1])
      [] method = "primary" -> primary(args[1])
      [] method = "statements" -> statements(args[1], args[2], args[3])
      [] method = "block" -> block(args[1])
      [] method = "elseBody" -> elseBody(args[1])
      [] method = "conditionBlock" -> conditionBlock(args[1], args[2])
      [] method = "if_" -> if_(args[1])
      [] method = "statement" -> statement(args[1])

\* what the deferred function of ParseExpression and ParseProgram makes of
\* the outcome: the value, the parser.Error, or a panic that goes on
Recover(r) ==
    IF ~r.failed THEN [kind |-> "ok", v |-> r.v]
    ELSE IF r.e.kind = "parse error" THEN [kind |-> "error", err |-> r.e]
    ELSE [kind |-> "panic", value |-> r.e]

\* parser{tokenizer: t} before its first p.next()
newParser(input) ==
    [tokenizer |-> NewTokenizer(input), pos |-> P(0, 0), tok |-> "ILLEGAL", val |-> << >>]

\* the expression or the program after the first p.next(), under the
\* deferred function
ParseExpressionAfter(r) ==
    Recover(IF r.failed THEN r ELSE expression(r.p))

ParseProgramAfter(r) ==
    Recover(IF r.failed THEN r ELSE program(r.p))

ParseExpression(input) ==
    ParseExpressionAfter(parserNext(newParser(input)))

ParseProgram(input) ==
    ParseProgramAfter(parserNext(newParser(input)))

(***************************************************************************)
(* The String() methods of the syntax tree (ast.go), on byte strings.      *)
(***************************************************************************)
\* Token.String(): tokenNames[t]
TokenString(tok) ==
    CASE tok = "=" -> <<61>>
      [] tok = ":" -> <<58>>
      [] tok = "," -> <<44>>
      [] tok = "/" -> <<47>>
      [] tok = "." -> <<46>>
      [] tok = ">" -> <<62>>
      [] tok = "{" -> <<123>>
      [] tok = "[" -> <<91>>
      [] tok = "(" -> <<40>>
      [] tok = "<" -> <<60>>
      [] tok = "-" -> <<45>>
      [] tok = "%" -> <<37>>
      [] tok = "+" -> <<43>>
      [] tok = "}" -> <<125>>
      [] tok = "]" -> <<93>>
      [] tok = ")" -> <<41>>
      [] tok = "*" -> <<42>>
      [] tok = "==" -> <<61, 61>>
      [] tok = ">=" -> <<62, 61>>
      [] tok = "<=" -> <<60, 61>>
      [] tok = "!=" -> <<33, 61>>
      [] tok = "..." -> <<46, 46, 46>>
      [] tok = "and" -> <<97, 110, 100>>
      [] tok = "else" -> <<101, 108, 115, 101>>
      [] tok = "false" -> <<102, 97, 108, 115, 101>>
      [] tok = "for" -> <<102, 111, 114>>
      [] tok = "func" -> <<102, 117, 110, 99>>
      [] tok = "if" -> <<105, 102>>
      [] tok = "in" -> <<105, 110>>
      [] tok = "nil" -> <<110, 105, 108>>
      [] tok = "not" -> <<110, 111, 116>>
      [] tok = "or" -> <<111, 114>>
      [] tok = "return" -> <<114, 101, 116, 117, 114, 110>>
      [] tok = "true" -> <<116, 114, 117, 101>>
      [] tok = "while" -> <<119, 104, 105, 108, 101>>
      [] tok = "int" -> <<105, 110, 116>>
      [] tok = "name" -> <<110, 97, 109, 101>>
      [] tok = "str" -> <<115, 116, 114>>
      [] tok = "ILLEGAL" -> <<73, 76, 76, 69, 71, 65, 76>>
      [] tok = "EOF" -> <<69, 79, 70>>

\* indent: s with four spaces after every newline (the lines are split and
\* joined again; the text is cut in halves to keep the recursion shallow)
RECURSIVE indentLines(_)
indentLines(s) ==
    IF Len(s) = 0 THEN << >>
    ELSE IF Len(s) = 1 THEN (IF s[1] = 10 THEN <<10, 32, 32, 32, 32>> ELSE s)
    ELSE LET h == Len(s) \div 2
         IN  indentLines(SubSeq(s, 1, h)) \o indentLines(SubSeq(s, h + 1, Len(s)))

indent(s) ==
    <<32, 32, 32, 32>> \o indentLines(s)

RECURSIVE String(_)

\* the String() of every element of a sequence of nodes
Strings(nodes) ==
    [i \in DOMAIN nodes |-> String(nodes[i])]

\* Block.String
BlockString(b) ==
    Join(Strings(b), <<10>>)

\* the parameters and the body of a function, as FunctionExpression.String
\* and FunctionDefinition.String write them
FunctionString(node) ==
    <<40>> \o Join(node.Parameters, <<44, 32>>) \o (IF node.Ellipsis THEN <<46, 46, 46>> ELSE << >>)
         \o <<41, 32, 123>>
         \o (IF Len(node.Body) # 0 THEN <<10>> \o indent(BlockString(node.Body)) \o <<10>>
             ELSE << >>)
         \o <<125>>

\* a block in braces, as If.String, While.String and For.String write it
BracedString(b) ==
    <<32, 123, 10>> \o indent(BlockString(b)) \o <<10, 125>>

String(node) ==
    CASE node.t = "Binary" ->
            <<40>> \o String(node.Left) \o <<32>> \o TokenString(node.Operator) \o <<32>>
                 \o String(node.Right) \o <<41>>
      [] node.t = "Unary" ->
            <<40>> \o TokenString(node.Operator)
                 \o (IF node.Operator = "not" THEN <<32>> ELSE << >>)
                 \o String(node.Operand) \o <<41>>
      [] node.t = "Call" ->
            String(node.Function) \o <<40>> \o Join(Strings(node.Arguments), <<44, 32>>)
                 \o (IF node.Ellipsis THEN <<46, 46, 46>> ELSE << >>) \o <<41>>
      [] node.t = "Literal" ->
            (CASE node.Value.k = "nil" -> <<110, 105, 108>>
               [] node.Value.k = "str" -> Quote(node.Value.s)
               [] node.Value.k = "int" -> FormatInt(node.Value.n)
               [] node.Value.k = "bool" -> IF node.Value.b THEN <<116, 114, 117, 101>> ELSE <<102, 97, 108, 115, 101>>)
      [] node.t = "List" ->
            <<91>> \o Join(Strings(node.Values), <<44, 32>>) \o <<93>>
      [] node.t = "Map" ->
            <<123>> \o Join([i \in DOMAIN node.Items |->
                            String(node.Items[i].Key) \o <<58, 32>> \o String(node.Items[i].Value)],
                         <<44, 32>>) \o <<125>>
      [] node.t = "FunctionExpression" ->
            <<102, 117, 110, 99>> \o FunctionString(node)
      [] node.t = "Subscript" ->
            String(node.Container) \o <<91>> \o String(node.Subscript) \o <<93>>
      [] node.t = "Variable" ->
            node.Name
      [] node.t = "Assign" ->
            String(node.Target) \o <<32, 61, 32>> \o String(node.Value)
      [] node.t = "If" ->
            <<105, 102, 32>> \o String(node.Condition) \o BracedString(node.Body)
                \o (IF Len(node.Else) > 0 THEN <<32, 101, 108, 115, 101>> \o BracedString(node.Else)
                    ELSE << >>)
      [] node.t = "While" ->
            <<119, 104, 105, 108, 101, 32>> \o String(node.Condition) \o BracedString(node.Body)
      [] node.t = "For" ->
            <<102, 111, 114, 32>> \o node.Name \o <<32, 105, 110, 32>> \o String(node.Iterable)
                \o BracedString(node.Body)
      [] node.t = "Return" ->
            <<114, 101, 116, 117, 114, 110, 32>> \o String(node.Result)
      [] node.t = "ExpressionStatement" ->
            String(node.Expression)
      [] node.t = "FunctionDefinition" ->
            <<102, 117, 110, 99, 32>> \o node.Name \o FunctionString(node)

(***************************************************************************)
(* The source texts the tokenizer and the parser are run on, as bytes.     *)
(***************************************************************************)
\* a = 1 // one\n\n  b = "x\\ty"\n
Source_assign_comment ==
    <<97, 32, 61, 32, 49, 32, 47, 47, 32, 111, 110, 101, 10, 10, 32, 32, 98, 32, 61, 32,
    34, 120, 92, 116, 121, 34, 10>>

\* // nothing
Source_only_comment ==
    <<47, 47, 32, 110, 111, 116, 104, 105, 110, 103>>

\* \t\r\n  \n
Source_blank ==
    <<9, 13, 10, 32, 32, 10>>

\* x != y ! z
Source_illegal_bang ==
    <<120, 32, 33, 61, 32, 121, 32, 33, 32, 122>>

\* a .. b
Source_illegal_dots ==
    <<97, 32, 46, 46, 32, 98>>

\* a\n  @ b
Source_illegal_char ==
    <<97, 10, 32, 32, 64, 32, 98>>

\* a ÿ b
Source_illegal_utf8 ==
    <<97, 32, 255, 32, 98>>

\* x\n  "abc
Source_unterminated ==
    <<120, 10, 32, 32, 34, 97, 98, 99>>

\* "a\nb" c
Source_newline_in_string ==
    <<34, 97, 10, 98, 34, 32, 99>>

\* "a\\qb" c
Source_bad_escape ==
    <<34, 97, 92, 113, 98, 34, 32, 99>>

\* 9223372036854775808
Source_big_int ==
    <<57, 50, 50, 51, 51, 55, 50, 48, 51, 54, 56, 53, 52, 55, 55, 53, 56, 48, 56>>

\*   99999999999999999999
Source_bigger_int ==
    <<32, 32, 57, 57, 57, 57, 57, 57, 57, 57, 57, 57, 57, 57, 57, 57, 57, 57, 57, 57, 57,
    57>>

\* x = 9223372036854775808
Source_big_int_assign ==
    <<120, 32, 61, 32, 57, 50, 50, 51, 51, 55, 50, 48, 51, 54, 56, 53, 52, 55, 55, 53, 56,
    48, 56>>

\* 9223372036854775808 !
Source_big_int_illegal ==
    <<57, 50, 50, 51, 51, 55, 50, 48, 51, 54, 56, 53, 52, 55, 55, 53, 56, 48, 56, 32, 33>>

\* [1, 18446744073709551616]
Source_big_int_later ==
    <<91, 49, 44, 32, 49, 56, 52, 52, 54, 55, 52, 52, 48, 55, 51, 55, 48, 57, 53, 53, 49,
    54, 49, 54, 93>>

\* 007
Source_zeros_int ==
    <<48, 48, 55>>

\* 1 + 2 * 3 - 4 / 5 % 6
Source_arithmetic ==
    <<49, 32, 43, 32, 50, 32, 42, 32, 51, 32, 45, 32, 52, 32, 47, 32, 53, 32, 37, 32, 54>>

\* not a and b or c
Source_logic ==
    <<110, 111, 116, 32, 97, 32, 97, 110, 100, 32, 98, 32, 111, 114, 32, 99>>

\* a or not not b
Source_not_not ==
    <<97, 32, 111, 114, 32, 110, 111, 116, 32, 110, 111, 116, 32, 98>>

\* a in b == c < d != e >= f
Source_compare ==
    <<97, 32, 105, 110, 32, 98, 32, 61, 61, 32, 99, 32, 60, 32, 100, 32, 33, 61, 32, 101,
    32, 62, 61, 32, 102>>

\* -x[1](2)
Source_negative ==
    <<45, 120, 91, 49, 93, 40, 50, 41>>

\* f(a, -y...)
Source_call_ellipsis ==
    <<102, 40, 97, 44, 32, 45, 121, 46, 46, 46, 41>>

\* {"a": [1, nil, true], b: false,}
Source_map_list ==
    <<123, 34, 97, 34, 58, 32, 91, 49, 44, 32, 110, 105, 108, 44, 32, 116, 114, 117, 101,
    93, 44, 32, 98, 58, 32, 102, 97, 108, 115, 101, 44, 125>>

\* a.b.c(d,)
Source_dots ==
    <<97, 46, 98, 46, 99, 40, 100, 44, 41>>

\* (a)(b)[(c)]
Source_parens ==
    <<40, 97, 41, 40, 98, 41, 91, 40, 99, 41, 93>>

\* func(a, b...) { return a }
Source_func_expr ==
    <<102, 117, 110, 99, 40, 97, 44, 32, 98, 46, 46, 46, 41, 32, 123, 32, 114, 101, 116,
    117, 114, 110, 32, 97, 32, 125>>

\* func() { }(1)
Source_func_empty ==
    <<102, 117, 110, 99, 40, 41, 32, 123, 32, 125, 40, 49, 41>>

\* func() { if a { b = 1 } else if c { d[0] = 2 } else { e } }
Source_func_if ==
    <<102, 117, 110, 99, 40, 41, 32, 123, 32, 105, 102, 32, 97, 32, 123, 32, 98, 32, 61,
    32, 49, 32, 125, 32, 101, 108, 115, 101, 32, 105, 102, 32, 99, 32, 123, 32, 100, 91,
    48, 93, 32, 61, 32, 50, 32, 125, 32, 101, 108, 115, 101, 32, 123, 32, 101, 32, 125,
    32, 125>>

\* func() { while f { } for g in h { i() } }
Source_func_loops ==
    <<102, 117, 110, 99, 40, 41, 32, 123, 32, 119, 104, 105, 108, 101, 32, 102, 32, 123,
    32, 125, 32, 102, 111, 114, 32, 103, 32, 105, 110, 32, 104, 32, 123, 32, 105, 40, 41,
    32, 125, 32, 125>>

\* func() { func j(k...) { } return nil }
Source_func_def ==
    <<102, 117, 110, 99, 40, 41, 32, 123, 32, 102, 117, 110, 99, 32, 106, 40, 107, 46, 46,
    46, 41, 32, 123, 32, 125, 32, 114, 101, 116, 117, 114, 110, 32, 110, 105, 108, 32,
    125>>

\* if a { b = 1 } else if c { d[0] = 2 } else { e }
Source_if_else ==
    <<105, 102, 32, 97, 32, 123, 32, 98, 32, 61, 32, 49, 32, 125, 32, 101, 108, 115, 101,
    32, 105, 102, 32, 99, 32, 123, 32, 100, 91, 48, 93, 32, 61, 32, 50, 32, 125, 32, 101,
    108, 115, 101, 32, 123, 32, 101, 32, 125>>

\* func() { a  b + c }
Source_func_two_statements ==
    <<102, 117, 110, 99, 40, 41, 32, 123, 32, 97, 32, 32, 98, 32, 43, 32, 99, 32, 125>>

\* "tab\\t \\"q\\" \\\\ \\n\\r"
Source_string_escapes ==
    <<34, 116, 97, 98, 92, 116, 32, 92, 34, 113, 92, 34, 32, 92, 92, 32, 92, 110, 92, 114,
    34>>

\* "a\tb"
Source_string_raw_tab ==
    <<34, 97, 9, 98, 34>>

\* "a\x01b"
Source_string_control ==
    <<34, 97, 1, 98, 34>>

\* "\x7f"
Source_string_delete ==
    <<34, 127, 34>>

\* func f(a, b) {\n    return a + b\n}\nprint(f(1, 2))\n
Source_program ==
    <<102, 117, 110, 99, 32, 102, 40, 97, 44, 32, 98, 41, 32, 123, 10, 32, 32, 32, 32,
    114, 101, 116, 117, 114, 110, 32, 97, 32, 43, 32, 98, 10, 125, 10, 112, 114, 105, 110,
    116, 40, 102, 40, 49, 44, 32, 50, 41, 41, 10>>

\* [1 2]
Source_missing_comma ==
    <<91, 49, 32, 50, 93>>

\* {a 1}
Source_missing_colon ==
    <<123, 97, 32, 49, 125>>

\* func(a b) { }
Source_bad_params ==
    <<102, 117, 110, 99, 40, 97, 32, 98, 41, 32, 123, 32, 125>>

\* f(a..., b)
Source_bad_ellipsis ==
    <<102, 40, 97, 46, 46, 46, 44, 32, 98, 41>>

\* 1 = 2
Source_bad_assign ==
    <<49, 32, 61, 32, 50>>

\* if a { } else b
Source_bad_else ==
    <<105, 102, 32, 97, 32, 123, 32, 125, 32, 101, 108, 115, 101, 32, 98>>

\* ) + 1
Source_bad_start ==
    <<41, 32, 43, 32, 49>>

\* a b
Source_trailing ==
    <<97, 32, 98>>

Sources ==
    {Source_assign_comment, Source_only_comment, Source_blank, Source_illegal_bang,
     Source_illegal_dots, Source_illegal_char, Source_illegal_utf8, Source_unterminated,
     Source_newline_in_string, Source_bad_escape, Source_big_int, Source_bigger_int,
     Source_big_int_assign, Source_big_int_illegal, Source_big_int_later,
     Source_zeros_int, Source_arithmetic, Source_logic, Source_not_not, Source_compare,
     Source_negative, Source_call_ellipsis, Source_map_list, Source_dots, Source_parens,
     Source_func_expr, Source_func_empty, Source_func_if, Source_func_loops,
     Source_func_def, Source_if_else, Source_func_two_statements, Source_string_escapes,
     Source_string_raw_tab, Source_string_control, Source_string_delete, Source_program,
     Source_missing_comma, Source_missing_colon, Source_bad_params, Source_bad_ellipsis,
     Source_bad_assign, Source_bad_else, Source_bad_start, Source_trailing}

(***************************************************************************)
(* Expressions of operators: words with one space between them.            *)
(***************************************************************************)
\* the spellings of the binary operators
BinaryWords ==
    {<<111, 114>>, <<97, 110, 100>>, <<61, 61>>, <<33, 61>>, <<60>>, <<60, 61>>, <<62>>, <<62, 61>>, <<105, 110>>, <<43>>, <<45>>, <<42>>,
     <<47>>, <<37>>}

\* nothing, or a prefix operator and a space
PrefixWords ==
    {<< >>, <<110, 111, 116, 32>>, <<45, 32>>}

\* nothing, or a subscript, or a call with one argument
PostfixWords ==
    {<< >>, <<32, 91, 32, 100, 32, 93>>, <<32, 40, 32, 100, 32, 41>>}

\* x op y op z, each operand with a prefix operator or without
ThreeOperands ==
    {px \o <<97, 32>> \o op1 \o <<32>> \o py \o <<98, 32>> \o op2 \o <<32>> \o pz \o <<99>> :
        px \in PrefixWords, py \in PrefixWords, pz \in PrefixWords,
        op1 \in BinaryWords, op2 \in BinaryWords}

\* x op y, each operand with or without a prefix operator, a subscript or
\* a call
TwoOperands ==
    {px \o <<97>> \o qx \o <<32>> \o op \o <<32>> \o py \o <<98>> \o qy :
        px \in PrefixWords, py \in PrefixWords, qx \in PostfixWords, qy \in PostfixWords,
        op \in BinaryWords}

\* an operand after up to two prefix operators
OneOperand ==
    {px \o py \o <<97>> \o qx : px \in PrefixWords, py \in PrefixWords, qx \in PostfixWords}

OperatorSources ==
    ThreeOperands \cup TwoOperands \cup OneOperand
(***************************************************************************)
(* Calls and functions with every short list of names, commas, ... and     *)
(* closing parentheses between their parentheses.                          *)
(***************************************************************************)
\* the length of the lists of words that are tried between ( and )
MaxItems ==
    5

ItemWords ==
    {<<97>>, <<44>>, <<46, 46, 46>>, <<41>>}

ItemLists ==
    UNION {[1..n -> ItemWords] : n \in 0..MaxItems}

\* the words with a space before each
RECURSIVE Spaced(_)
Spaced(words) ==
    IF Len(words) = 0 THEN << >> ELSE <<32>> \o Head(words) \o Spaced(Tail(words))

\* f ( items
CallSources ==
    {<<102, 32, 40>> \o Spaced(items) : items \in ItemLists}

\* func ( items { }
FunctionSources ==
    {<<102, 117, 110, 99, 32, 40>> \o Spaced(items) \o <<32, 123, 32, 125>> : items \in ItemLists}

\* func g ( items { }
DefinitionSources ==
    {<<102, 117, 110, 99, 32, 103, 32, 40>> \o Spaced(items) \o <<32, 123, 32, 125>> : items \in ItemLists}

EllipsisSources ==
    CallSources \cup FunctionSources \cup DefinitionSources

(***************************************************************************)
(* The interpreter state: scopes, control and the Go call stack.           *)
(***************************************************************************)
\* a bound of the model: no step is taken once interp.stats.Ops reaches it
MaxOps ==
    150

None ==
    [set |-> FALSE]

\* the frames of the Go call stack
ExecuteFrame(rest) ==
    [f |-> "execute", rest |-> rest]

BlockFrame(rest) ==
    [f |-> "executeBlock", rest |-> rest]

\* an evaluate or executeStatement case with operands still to evaluate
OperandsFrame(node, done, todo) ==
    [f |-> "operands", node |-> node, done |-> done, todo |-> todo]

WhileFrame(s) ==
    [f |-> "while", s |-> s]

\* a listIterator: the slice it holds (arr, off, len) and its index
Iterator(arr, off, len) ==
    [arr |-> arr, off |-> off, len |-> len, index |-> 0]

ForFrame(s, it) ==
    [f |-> "for", s |-> s, it |-> it]

\* callFunction, with its deferred recover; entry is history: the scope
\* stack and the caller's top scope at the call
CallFunctionFrame(fn, entry) ==
    [f |-> "callFunction", fn |-> fn, entry |-> entry]

\* userFunction.call, with its two deferred popScope calls
UserCallFrame(fn, local) ==
    [f |-> "userFunction.call", fn |-> fn, local |-> local]

\* sortFunc with a key function, in its loop over the list
SortFrame(pos, list, keyFunc, it, pairs) ==
    [f |-> "sortFunc", pos |-> pos, list |-> list, keyFunc |-> keyFunc,
     it |-> it, pairs |-> pairs]

Top ==
    Head(kont)

Push(frame, k) ==
    <<frame>> \o k

\* control modes
Next_ ==
    [m |-> "next"]

Eval(e) ==
    [m |-> "eval", e |-> e]

Exec(s) ==
    [m |-> "exec", s |-> s]

Val(v) ==
    [m |-> "val", v |-> v]

Apply ==
    [m |-> "apply"]

Panic(p) ==
    [m |-> "panic", p |-> p]

Init ==
    /\ prog \in Programs
    /\ vars = <<1>>
    /\ scopes = <<[name \in BuiltinNames |-> BuiltinV(name)]>>
    /\ lists = << >>
    /\ arrays = << >>
    /\ maps = << >>
    /\ funcs = << >>
    /\ stdout = << >>
    /\ stats = [Ops |-> 0, UserCalls |-> 0, BuiltinCalls |-> 0]
    /\ ctrl = Next_
    /\ kont = <<ExecuteFrame(prog)>>
    /\ err = NoError
    /\ parent = <<0>>
    /\ defScope = << >>
    /\ lastExit = None
    /\ lastAlias = None
    /\ lastFresh = None
    /\ lastError = None
    /\ lastReturn = None
    /\ src = << >>
    /\ tokenizer = NewTokenizer(<< >>)
    /\ tokens = << >>
    /\ parsed = None
    /\ reparsed = None

Running ==
    stats.Ops < MaxOps

\* interp.vars[len(interp.vars)-1]
TopScope(v) ==
    v[Len(v)]

\* the index in the scope stack where lookup finds the name, 0 if nowhere
LookupIndex(name) ==
    IF \E i \in 1..Len(vars) : name \in DOMAIN scopes[vars[i]]
    THEN CHOOSE i \in 1..Len(vars) :
            /\ name \in DOMAIN scopes[vars[i]]
            /\ \A j \in (i + 1)..Len(vars) : name \notin DOMAIN scopes[vars[j]]
    ELSE 0

\* interp.lookup
lookup(name) ==
    IF LookupIndex(name) = 0 THEN [ok |-> FALSE, v |-> NilV]
    ELSE [ok |-> TRUE, v |-> scopes[vars[LookupIndex(name)]][name]]

\* a scope map with name set to value
Bind(scope, name, value) ==
    [n \in DOMAIN scope \cup {name} |-> IF n = name THEN value ELSE scope[n]]

\* a variant: interp.assign writes the scope under the top one
AssignBelowTop(v) ==
    IF Len(v) > 1 THEN v[Len(v) - 1] ELSE v[1]

\* the scope that interp.assign writes
AssignTarget(v) ==
    TopScope(v)

\* interp.assign
assign(name, value) ==
    [scopes EXCEPT ![AssignTarget(vars)] = Bind(@, name, value)]

\* a variant: a new function value captures the global scope
ClosureGlobal(v) ==
    v[1]

\* the closure a new function value captures
ClosureOf(v) ==
    TopScope(v)

\* the heap after a result
Heap(r) ==
    /\ lists' = r.lists
    /\ arrays' = r.arrays
    /\ maps' = r.maps
    /\ stdout' = r.stdout

HeapUnchanged ==
    UNCHANGED <<lists, arrays, maps, stdout>>

CountOp ==
    stats' = [stats EXCEPT !.Ops = @ + 1]

\* a panic with an interpreter Error, with the history of the moment
Throw(p, ops) ==
    /\ ctrl' = Panic(p)
    /\ lastError' = IF IsError(p) /\ ~lastError.set
                    THEN [set |-> TRUE, p |-> p, stdout |-> stdout, ops |-> ops]
                    ELSE lastError

\* the control after a result: its value, or the panic
Continue(r, ops) ==
    IF r.ok THEN ctrl' = Val(r.v) /\ UNCHANGED lastError
    ELSE Throw(r.p, ops)

(***************************************************************************)
(* Statements: execute, executeBlock and the cases of executeStatement.    *)
(***************************************************************************)
\* start on the operands of a node, left to right
Begin(node, operands) ==
    IF operands = << >>
    THEN /\ kont' = Push(OperandsFrame(node, << >>, << >>), kont)
         /\ ctrl' = Apply
    ELSE /\ kont' = Push(OperandsFrame(node, << >>, Tail(operands)), kont)
         /\ ctrl' = Eval(Head(operands))

\* the contents of a value, as far as a holder of it can see them
Contents(ls, ar, ms, v) ==
    CASE v.k = "list" -> [k |-> "list", elems |-> ElemsOf(ls, ar, v.id)]
      [] v.k = "map" -> [k |-> "map", items |-> ms[v.id]]
      [] OTHER -> v

\* history of `x = y`: kept up at every interp.assign of name in scope
AliasAfterAssign(name, scope) ==
    IF lastAlias.set /\ lastAlias.y = name /\ lastAlias.ys = scope THEN None
    ELSE IF lastAlias.set /\ lastAlias.x = name /\ lastAlias.xs = scope
    THEN [lastAlias EXCEPT !.rebound = TRUE]
    ELSE lastAlias

\* the loop of execute and executeBlock: on to the next statement
StepBlock ==
    /\ Running
    /\ ctrl.m = "next"
    /\ Top.f \in {"execute", "executeBlock"}
    /\ Top.rest # << >>
    /\ ctrl' = Exec(Head(Top.rest))
    /\ kont' = Push([Top EXCEPT !.rest = Tail(@)], Tail(kont))
    /\ UNCHANGED <<pvars, prog, vars, scopes, lists, arrays, maps, funcs, stdout, stats, err,
                   parent, defScope, lastExit, lastAlias, lastFresh, lastError, lastReturn>>

\* executeBlock returns
EndBlock ==
    /\ ctrl.m = "next"
    /\ Top.f = "executeBlock"
    /\ Top.rest = << >>
    /\ kont' = Tail(kont)
    /\ UNCHANGED <<pvars, prog, vars, scopes, lists, arrays, maps, funcs, stdout, stats, ctrl, err,
                   parent, defScope, lastExit, lastAlias, lastFresh, lastError, lastReturn>>

\* Execute returns after interp.execute: err is nil
ExecuteReturn ==
    /\ ctrl.m = "next"
    /\ Top.f = "execute"
    /\ Top.rest = << >>
    /\ kont' = << >>
    /\ ctrl' = [m |-> "done"]
    /\ err' = NoError
    /\ UNCHANGED <<pvars, prog, vars, scopes, lists, arrays, maps, funcs, stdout, stats,
                   parent, defScope, lastExit, lastAlias, lastFresh, lastError, lastReturn>>

\* executeStatement, case *parser.Assign: the operands
ExecAssign ==
    /\ Running
    /\ ctrl.m = "exec"
    /\ ctrl.s.t = "Assign"
    /\ CountOp
    /\ Begin(ctrl.s, IF ctrl.s.Target.t = "Variable" THEN <<ctrl.s.Value>>
                     ELSE <<ctrl.s.Target.Container, ctrl.s.Target.Subscript, ctrl.s.Value>>)
    /\ UNCHANGED <<pvars, prog, vars, scopes, lists, arrays, maps, funcs, stdout, err,
                   parent, defScope, lastExit, lastAlias, lastFresh, lastError, lastReturn>>

\* a variant: assignment gives lists value semantics, the name is bound
\* to a copy of the list
FinishAssignCopy ==
    /\ ctrl.m = "apply"
    /\ Top.f = "operands"
    /\ Top.node.t = "Assign"
    /\ Top.node.Target.t = "Variable"
    /\ LET r == IF Top.done[1].k = "list"
                THEN OkNewList(Elems(Top.done[1].id), lists[Top.done[1].id].len)
                ELSE Ok(Top.done[1])
       IN  /\ Heap(r)
           /\ scopes' = assign(Top.node.Target.Name, r.v)
    /\ lastAlias' =
          IF Top.node.Value.t = "Variable"
          THEN [set |-> TRUE, x |-> Top.node.Target.Name, xs |-> AssignTarget(vars),
                y |-> Top.node.Value.Name, ys |-> vars[LookupIndex(Top.node.Value.Name)],
                value |-> Top.done[1],
                contents |-> Contents(lists, arrays, maps, Top.done[1]),
                rebound |-> FALSE]
          ELSE AliasAfterAssign(Top.node.Target.Name, AssignTarget(vars))
    /\ kont' = Tail(kont)
    /\ ctrl' = Next_
    /\ UNCHANGED <<pvars, prog, vars, funcs, stats, err,
                   parent, defScope, lastExit, lastFresh, lastError, lastReturn>>

\* case *parser.Assign, target *parser.Variable: interp.assign
FinishAssignVariable ==
    /\ ctrl.m = "apply"
    /\ Top.f = "operands"
    /\ Top.node.t = "Assign"
    /\ Top.node.Target.t = "Variable"
    /\ scopes' = assign(Top.node.Target.Name, Top.done[1])
    /\ lastAlias' =
          IF Top.node.Value.t = "Variable"
          THEN [set |-> TRUE, x |-> Top.node.Target.Name, xs |-> AssignTarget(vars),
                y |-> Top.node.Value.Name, ys |-> vars[LookupIndex(Top.node.Value.Name)],
                value |-> Top.done[1],
                contents |-> Contents(lists, arrays, maps, Top.done[1]),
                rebound |-> FALSE]
          ELSE AliasAfterAssign(Top.node.Target.Name, AssignTarget(vars))
    /\ kont' = Tail(kont)
    /\ ctrl' = Next_
    /\ UNCHANGED <<pvars, prog, vars, lists, arrays, maps, funcs, stdout, stats, err,
                   parent, defScope, lastExit, lastFresh, lastError, lastReturn>>

\* case *parser.Assign, target *parser.Subscript: interp.assignSubscript
FinishAssignSubscript ==
    /\ ctrl.m = "apply"
    /\ Top.f = "operands"
    /\ Top.node.t = "Assign"
    /\ Top.node.Target.t = "Subscript"
    /\ LET r == assignSubscript(Top.node.Target.Subscript.pos,
                                Top.done[1], Top.done[2], Top.done[3])
       IN  /\ Heap(r)
           /\ IF r.ok THEN ctrl' = Next_ /\ UNCHANGED lastError
              ELSE Throw(r.p, stats.Ops)
    /\ kont' = Tail(kont)
    /\ UNCHANGED <<pvars, prog, vars, scopes, funcs, stats, err,
                   parent, defScope, lastExit, lastAlias, lastFresh, lastReturn>>

\* case *parser.If: the condition
ExecIf ==
    /\ Running
    /\ ctrl.m = "exec"
    /\ ctrl.s.t = "If"
    /\ CountOp
    /\ Begin(ctrl.s, <<ctrl.s.Condition>>)
    /\ UNCHANGED <<pvars, prog, vars, scopes, lists, arrays, maps, funcs, stdout, err,
                   parent, defScope, lastExit, lastAlias, lastFresh, lastError, lastReturn>>

\* case *parser.If: the body, the else block, or nothing
FinishIf ==
    /\ ctrl.m = "apply"
    /\ Top.f = "operands"
    /\ Top.node.t = "If"
    /\ LET cond == Top.done[1]
           s == Top.node
       IN  IF cond.k = "bool"
           THEN /\ ctrl' = Next_
                /\ kont' = IF cond.b THEN Push(BlockFrame(s.Body), Tail(kont))
                           ELSE IF Len(s.Else) > 0 THEN Push(BlockFrame(s.Else), Tail(kont))
                           ELSE Tail(kont)
                /\ UNCHANGED lastError
           ELSE /\ Throw(typeError(s.Condition.pos, "if condition must be bool, got %s",
                                   <<typeName(cond)>>), stats.Ops)
                /\ kont' = Tail(kont)
    /\ UNCHANGED <<pvars, prog, vars, scopes, lists, arrays, maps, funcs, stdout, stats, err,
                   parent, defScope, lastExit, lastAlias, lastFresh, lastReturn>>

\* fmt's %T of a value
goTypeName(v) ==
    CASE v.k = "nil" -> <<60, 110, 105, 108, 62>>
      [] v.k = "bool" -> <<98, 111, 111, 108>>
      [] v.k = "int" -> <<105, 110, 116>>
      [] v.k = "str" -> <<115, 116, 114, 105, 110, 103>>
      [] v.k = "list" ->
            <<42, 91, 93, 105, 110, 116, 101, 114, 112, 114, 101, 116, 101, 114, 46, 86, 97, 108,
              117, 101>>
      [] v.k = "map" ->
            <<109, 97, 112, 91, 115, 116, 114, 105, 110, 103, 93, 105, 110, 116, 101, 114, 112,
              114, 101, 116, 101, 114, 46, 86, 97, 108, 117, 101>>
      [] v.k = "func" ->
            <<42, 105, 110, 116, 101, 114, 112, 114, 101, 116, 101, 114, 46, 117, 115, 101, 114,
              70, 117, 110, 99, 116, 105, 111, 110>>
      [] OTHER ->
            <<105, 110, 116, 101, 114, 112, 114, 101, 116, 101, 114, 46, 98, 117, 105, 108, 116,
              105, 110, 70, 117, 110, 99, 116, 105, 111, 110>>

\* case *parser.While: the statement is entered
ExecWhile ==
    /\ Running
    /\ ctrl.m = "exec"
    /\ ctrl.s.t = "While"
    /\ CountOp
    /\ Begin(ctrl.s, <<ctrl.s.Condition>>)
    /\ UNCHANGED <<pvars, prog, vars, scopes, lists, arrays, maps, funcs, stdout, err,
                   parent, defScope, lastExit, lastAlias, lastFresh, lastError, lastReturn>>

\* case *parser.While: the condition is evaluated
FinishWhile ==
    /\ ctrl.m = "apply"
    /\ Top.f = "operands"
    /\ Top.node.t = "While"
    /\ LET cond == Top.done[1]
           s == Top.node
       IN  IF cond.k = "bool"
           THEN /\ ctrl' = Next_
                /\ kont' = IF cond.b
                           THEN Push(BlockFrame(s.Body), Push(WhileFrame(s), Tail(kont)))
                           ELSE Tail(kont)
                /\ UNCHANGED lastError
           ELSE /\ Throw(typeError(s.Condition.pos, "while condition must be bool, got %T",
                                   <<goTypeName(cond)>>), stats.Ops)
                /\ kont' = Tail(kont)
    /\ UNCHANGED <<pvars, prog, vars, scopes, lists, arrays, maps, funcs, stdout, stats, err,
                   parent, defScope, lastExit, lastAlias, lastFresh, lastReturn>>

\* case *parser.While: the body is done, the condition again
WhileAgain ==
    /\ Running
    /\ ctrl.m = "next"
    /\ Top.f = "while"
    /\ kont' = Push(OperandsFrame(Top.s, << >>, << >>), Tail(kont))
    /\ ctrl' = Eval(Top.s.Condition)
    /\ UNCHANGED <<pvars, prog, vars, scopes, lists, arrays, maps, funcs, stdout, stats, err,
                   parent, defScope, lastExit, lastAlias, lastFresh, lastError, lastReturn>>

\* the orders a range over a Go map can take
Perms(S) ==
    {f \in [1..Cardinality(S) -> S] : \A i, j \in DOMAIN f : i # j => f[i] # f[j]}

\* a variant: the iterator of a list runs to the capacity of its slice
getIteratorToCap(pos, value) ==
    CASE value.k = "str" ->
            {[ok |-> TRUE, it |-> Iterator(Len(arrays) + 1, 0, Len(value.s)),
              arrays |-> Append(arrays, [i \in 1..Len(value.s) |-> StrV(<<value.s[i]>>)])]}
      [] value.k = "list" ->
            {[ok |-> TRUE, arrays |-> arrays,
              it |-> Iterator(lists[value.id].arr, lists[value.id].off, lists[value.id].cap)]}
      [] value.k = "map" ->
            {[ok |-> TRUE, it |-> Iterator(Len(arrays) + 1, 0, Len(keys)),
              arrays |-> Append(arrays, [i \in 1..Len(keys) |-> StrV(keys[i])])] :
                keys \in Perms(DOMAIN maps[value.id])}
      [] OTHER ->
            {[ok |-> FALSE,
              p |-> typeError(pos, "expected iterable (str, list, or map), got %s",
                              <<typeName(value)>>)]}

\* getIterator: the iterators it can return, or the error
getIterator(pos, value) ==
    CASE value.k = "str" ->
            {[ok |-> TRUE, it |-> Iterator(Len(arrays) + 1, 0, Len(value.s)),
              arrays |-> Append(arrays, [i \in 1..Len(value.s) |-> StrV(<<value.s[i]>>)])]}
      [] value.k = "list" ->
            {[ok |-> TRUE, arrays |-> arrays,
              it |-> Iterator(lists[value.id].arr, lists[value.id].off, lists[value.id].len)]}
      [] value.k = "map" ->
            {[ok |-> TRUE, it |-> Iterator(Len(arrays) + 1, 0, Len(keys)),
              arrays |-> Append(arrays, [i \in 1..Len(keys) |-> StrV(keys[i])])] :
                keys \in Perms(DOMAIN maps[value.id])}
      [] OTHER ->
            {[ok |-> FALSE,
              p |-> typeError(pos, "expected iterable (str, list, or map), got %s",
                              <<typeName(value)>>)]}

\* listIterator.HasNext
HasNext(it) ==
    it.index < it.len

\* listIterator.Value: the value it returns
IteratorValue(it) ==
    arrays[it.arr][it.off + it.index + 1]

\* case *parser.For: the iterable
ExecFor ==
    /\ Running
    /\ ctrl.m = "exec"
    /\ ctrl.s.t = "For"
    /\ CountOp
    /\ Begin(ctrl.s, <<ctrl.s.Iterable>>)
    /\ UNCHANGED <<pvars, prog, vars, scopes, lists, arrays, maps, funcs, stdout, err,
                   parent, defScope, lastExit, lastAlias, lastFresh, lastError, lastReturn>>

\* case *parser.For: getIterator
FinishFor ==
    /\ ctrl.m = "apply"
    /\ Top.f = "operands"
    /\ Top.node.t = "For"
    /\ \E r \in getIterator(Top.node.Iterable.pos, Top.done[1]) :
          IF r.ok
          THEN /\ arrays' = r.arrays
               /\ kont' = Push(ForFrame(Top.node, r.it), Tail(kont))
               /\ ctrl' = Next_
               /\ UNCHANGED lastError
          ELSE /\ Throw(r.p, stats.Ops)
               /\ kont' = Tail(kont)
               /\ UNCHANGED arrays
    /\ UNCHANGED <<pvars, prog, vars, scopes, lists, maps, funcs, stdout, stats, err,
                   parent, defScope, lastExit, lastAlias, lastFresh, lastReturn>>

\* a variant: the loop name is local to the loop and unbound at its end
ForNextScoped ==
    /\ ctrl.m = "next"
    /\ Top.f = "for"
    /\ IF HasNext(Top.it)
       THEN /\ scopes' = assign(Top.s.Name, IteratorValue(Top.it))
            /\ lastAlias' = AliasAfterAssign(Top.s.Name, AssignTarget(vars))
            /\ kont' = Push(BlockFrame(Top.s.Body),
                            Push([Top EXCEPT !.it.index = @ + 1], Tail(kont)))
       ELSE /\ kont' = Tail(kont)
            /\ scopes' = [scopes EXCEPT ![TopScope(vars)] =
                              [n \in DOMAIN @ \ {Top.s.Name} |-> @[n]]]
            /\ UNCHANGED lastAlias
    /\ UNCHANGED <<pvars, prog, vars, lists, arrays, maps, funcs, stdout, stats, ctrl, err,
                   parent, defScope, lastExit, lastFresh, lastError, lastReturn>>

\* case *parser.For: one turn of the loop, or its end
ForNext ==
    /\ ctrl.m = "next"
    /\ Top.f = "for"
    /\ IF HasNext(Top.it)
       THEN /\ scopes' = assign(Top.s.Name, IteratorValue(Top.it))
            /\ lastAlias' = AliasAfterAssign(Top.s.Name, AssignTarget(vars))
            /\ kont' = Push(BlockFrame(Top.s.Body),
                            Push([Top EXCEPT !.it.index = @ + 1], Tail(kont)))
       ELSE /\ kont' = Tail(kont)
            /\ UNCHANGED <<scopes, lastAlias>>
    /\ UNCHANGED <<pvars, prog, vars, lists, arrays, maps, funcs, stdout, stats, ctrl, err,
                   parent, defScope, lastExit, lastFresh, lastError, lastReturn>>

\* case *parser.ExpressionStatement
ExecExpressionStatement ==
    /\ Running
    /\ ctrl.m = "exec"
    /\ ctrl.s.t = "ExpressionStatement"
    /\ CountOp
    /\ Begin(ctrl.s, <<ctrl.s.Expression>>)
    /\ UNCHANGED <<pvars, prog, vars, scopes, lists, arrays, maps, funcs, stdout, err,
                   parent, defScope, lastExit, lastAlias, lastFresh, lastError, lastReturn>>

\* case *parser.ExpressionStatement: the value is dropped
FinishExpressionStatement ==
    /\ ctrl.m = "apply"
    /\ Top.f = "operands"
    /\ Top.node.t = "ExpressionStatement"
    /\ kont' = Tail(kont)
    /\ ctrl' = Next_
    /\ UNCHANGED <<pvars, prog, vars, scopes, lists, arrays, maps, funcs, stdout, stats, err,
                   parent, defScope, lastExit, lastAlias, lastFresh, lastError, lastReturn>>

\* a new userFunction object
userFunction(name, parameters, ellipsis, body, closure) ==
    [Name |-> name, Parameters |-> parameters, Ellipsis |-> ellipsis, Body |-> body,
     Closure |-> closure]

\* case *parser.FunctionDefinition
ExecFunctionDefinition ==
    /\ Running
    /\ ctrl.m = "exec"
    /\ ctrl.s.t = "FunctionDefinition"
    /\ CountOp
    /\ funcs' = Append(funcs, userFunction(ctrl.s.Name, ctrl.s.Parameters, ctrl.s.Ellipsis,
                                           ctrl.s.Body, ClosureOf(vars)))
    /\ defScope' = Append(defScope, TopScope(vars))
    /\ scopes' = assign(ctrl.s.Name, FuncV(Len(funcs) + 1))
    /\ lastAlias' = AliasAfterAssign(ctrl.s.Name, AssignTarget(vars))
    /\ ctrl' = Next_
    /\ UNCHANGED <<pvars, prog, vars, lists, arrays, maps, stdout, kont, err,
                   parent, lastExit, lastFresh, lastError, lastReturn>>

\* case *parser.Return: the result expression
ExecReturn ==
    /\ Running
    /\ ctrl.m = "exec"
    /\ ctrl.s.t = "Return"
    /\ CountOp
    /\ Begin(ctrl.s, <<ctrl.s.Result>>)
    /\ UNCHANGED <<pvars, prog, vars, scopes, lists, arrays, maps, funcs, stdout, err,
                   parent, defScope, lastExit, lastAlias, lastFresh, lastError, lastReturn>>

\* the frames under the innermost callFunction (none: the empty stack)
RECURSIVE Enclosing(_)
Enclosing(k) ==
    IF k = << >> THEN << >>
    ELSE IF Head(k).f = "callFunction" THEN Tail(k)
    ELSE Enclosing(Tail(k))

InCall(k) ==
    \E i \in 1..Len(k) : k[i].f = "callFunction"

\* the number of loops of the innermost activation that are running
RECURSIVE Loops(_)
Loops(k) ==
    IF k = << >> \/ Head(k).f = "callFunction" THEN 0
    ELSE Loops(Tail(k)) + (IF Head(k).f \in {"while", "for"} THEN 1 ELSE 0)

\* a variant: the return panics with the position of its expression
ReturnPanicAtResult(s, result) ==
    returnResult(result, s.Result.pos)

\* what a return statement panics with
ReturnPanic(s, result) ==
    returnResult(result, s.pos)

\* case *parser.Return: panic(returnResult{result, s.Position()})
FinishReturn ==
    /\ ctrl.m = "apply"
    /\ Top.f = "operands"
    /\ Top.node.t = "Return"
    /\ ctrl' = Panic(ReturnPanic(Top.node, Top.done[1]))
    /\ kont' = Tail(kont)
    /\ lastReturn' = [set |-> TRUE, pending |-> TRUE, value |-> Top.done[1],
                      pos |-> Top.node.pos, toplevel |-> ~InCall(kont),
                      outer |-> Enclosing(kont), loops |-> Loops(kont),
                      ops |-> stats.Ops, stdout |-> stdout]
    /\ UNCHANGED <<pvars, prog, vars, scopes, lists, arrays, maps, funcs, stdout, stats, err,
                   parent, defScope, lastExit, lastAlias, lastFresh, lastError>>

(***************************************************************************)
(* Expressions: the cases of interp.evaluate.                              *)
(***************************************************************************)
\* case *parser.Literal
EvalLiteral ==
    /\ Running
    /\ ctrl.m = "eval"
    /\ ctrl.e.t = "Literal"
    /\ CountOp
    /\ ctrl' = Val(ctrl.e.Value)
    /\ UNCHANGED <<pvars, prog, vars, scopes, lists, arrays, maps, funcs, stdout, kont, err,
                   parent, defScope, lastExit, lastAlias, lastFresh, lastError, lastReturn>>

\* case *parser.Variable: interp.lookup, or the NameError
EvalVariable ==
    /\ Running
    /\ ctrl.m = "eval"
    /\ ctrl.e.t = "Variable"
    /\ CountOp
    /\ IF lookup(ctrl.e.Name).ok
       THEN ctrl' = Val(lookup(ctrl.e.Name).v) /\ UNCHANGED lastError
       ELSE Throw(nameError(ctrl.e.pos, "name %q not found", <<NameBytes(ctrl.e.Name)>>),
                  stats.Ops + 1)
    /\ UNCHANGED <<pvars, prog, vars, scopes, lists, arrays, maps, funcs, stdout, kont, err,
                   parent, defScope, lastExit, lastAlias, lastFresh, lastReturn>>

\* case *parser.FunctionExpression
EvalFunctionExpression ==
    /\ Running
    /\ ctrl.m = "eval"
    /\ ctrl.e.t = "FunctionExpression"
    /\ CountOp
    /\ funcs' = Append(funcs, userFunction("", ctrl.e.Parameters, ctrl.e.Ellipsis,
                                           ctrl.e.Body, ClosureOf(vars)))
    /\ defScope' = Append(defScope, TopScope(vars))
    /\ ctrl' = Val(FuncV(Len(funcs) + 1))
    /\ UNCHANGED <<pvars, prog, vars, scopes, lists, arrays, maps, stdout, kont, err,
                   parent, lastExit, lastAlias, lastFresh, lastError, lastReturn>>

\* case *parser.Binary: the left operand first
EvalBinary ==
    /\ Running
    /\ ctrl.m = "eval"
    /\ ctrl.e.t = "Binary"
    /\ CountOp
    /\ Begin(ctrl.e, <<ctrl.e.Left, ctrl.e.Right>>)
    /\ UNCHANGED <<pvars, prog, vars, scopes, lists, arrays, maps, funcs, stdout, err,
                   parent, defScope, lastExit, lastAlias, lastFresh, lastError, lastReturn>>

\* case *parser.Unary
EvalUnary ==
    /\ Running
    /\ ctrl.m = "eval"
    /\ ctrl.e.t = "Unary"
    /\ CountOp
    /\ Begin(ctrl.e, <<ctrl.e.Operand>>)
    /\ UNCHANGED <<pvars, prog, vars, scopes, lists, arrays, maps, funcs, stdout, err,
                   parent, defScope, lastExit, lastAlias, lastFresh, lastError, lastReturn>>

\* case *parser.Call: the function, then the arguments
EvalCall ==
    /\ Running
    /\ ctrl.m = "eval"
    /\ ctrl.e.t = "Call"
    /\ CountOp
    /\ Begin(ctrl.e, <<ctrl.e.Function>> \o ctrl.e.Arguments)
    /\ UNCHANGED <<pvars, prog, vars, scopes, lists, arrays, maps, funcs, stdout, err,
                   parent, defScope, lastExit, lastAlias, lastFresh, lastError, lastReturn>>

\* case *parser.List
EvalList ==
    /\ Running
    /\ ctrl.m = "eval"
    /\ ctrl.e.t = "List"
    /\ CountOp
    /\ Begin(ctrl.e, ctrl.e.Values)
    /\ UNCHANGED <<pvars, prog, vars, scopes, lists, arrays, maps, funcs, stdout, err,
                   parent, defScope, lastExit, lastAlias, lastFresh, lastError, lastReturn>>

\* the key and value expressions of a map literal, in evaluation order
ItemOperands(items) ==
    [i \in 1..(2 * Len(items)) |->
        IF i % 2 = 1 THEN items[(i + 1) \div 2].Key ELSE items[i \div 2].Value]

\* case *parser.Map
EvalMap ==
    /\ Running
    /\ ctrl.m = "eval"
    /\ ctrl.e.t = "Map"
    /\ CountOp
    /\ Begin(ctrl.e, ItemOperands(ctrl.e.Items))
    /\ UNCHANGED <<pvars, prog, vars, scopes, lists, arrays, maps, funcs, stdout, err,
                   parent, defScope, lastExit, lastAlias, lastFresh, lastError, lastReturn>>

\* case *parser.Subscript
EvalSubscript ==
    /\ Running
    /\ ctrl.m = "eval"
    /\ ctrl.e.t = "Subscript"
    /\ CountOp
    /\ Begin(ctrl.e, <<ctrl.e.Container, ctrl.e.Subscript>>)
    /\ UNCHANGED <<pvars, prog, vars, scopes, lists, arrays, maps, funcs, stdout, err,
                   parent, defScope, lastExit, lastAlias, lastFresh, lastError, lastReturn>>

\* an operand has its value: on to the next one, or to the operation
Deliver(v) ==
    /\ kont' = Push([Top EXCEPT !.done = Append(@, v),
                                !.todo = IF @ = << >> THEN @ ELSE Tail(@)], Tail(kont))
    /\ ctrl' = IF Top.todo = << >> THEN Apply ELSE Eval(Head(Top.todo))

IsAndOr(node) ==
    node.t = "Binary" /\ node.Operator \in {"and", "or"}

\* the operands that are checked as soon as they have their value
IsChecked(frame) ==
    \/ IsAndOr(frame.node) /\ Len(frame.done) = 0
    \/ frame.node.t = "Call" /\ Len(frame.done) = 0
    \/ frame.node.t = "Map" /\ Len(frame.done) % 2 = 0

\* interp.evaluate returns the value of an operand
Operand ==
    /\ ctrl.m = "val"
    /\ Top.f = "operands"
    /\ ~IsChecked(Top)
    /\ Deliver(ctrl.v)
    /\ UNCHANGED <<pvars, prog, vars, scopes, lists, arrays, maps, funcs, stdout, stats, err,
                   parent, defScope, lastExit, lastAlias, lastFresh, lastError, lastReturn>>

\* a variant: the right operand is evaluated whatever the left operand is
OperandAndOrEager ==
    /\ ctrl.m = "val"
    /\ Top.f = "operands"
    /\ IsAndOr(Top.node)
    /\ Len(Top.done) = 0
    /\ IF ctrl.v.k # "bool"
       THEN /\ Throw(typeError(Top.node.pos, IF Top.node.Operator = "and"
                                             THEN "and requires two bools"
                                             ELSE "or requires two bools", << >>), stats.Ops)
            /\ kont' = Tail(kont)
       ELSE Deliver(ctrl.v) /\ UNCHANGED lastError
    /\ UNCHANGED <<pvars, prog, vars, scopes, lists, arrays, maps, funcs, stdout, stats, err,
                   parent, defScope, lastExit, lastAlias, lastFresh, lastReturn>>

\* evalAnd and evalOr: the left operand
OperandAndOr ==
    /\ ctrl.m = "val"
    /\ Top.f = "operands"
    /\ IsAndOr(Top.node)
    /\ Len(Top.done) = 0
    /\ LET e == Top.node
           l == ctrl.v
       IN  IF l.k # "bool"
           THEN /\ Throw(typeError(e.pos, IF e.Operator = "and" THEN "and requires two bools"
                                          ELSE "or requires two bools", << >>), stats.Ops)
                /\ kont' = Tail(kont)
           ELSE IF l.b = (e.Operator = "or")
           THEN \* short circuit: the right operand is not evaluated
                /\ ctrl' = Val(BoolV(l.b))
                /\ kont' = Tail(kont)
                /\ UNCHANGED lastError
           ELSE Deliver(l) /\ UNCHANGED lastError
    /\ UNCHANGED <<pvars, prog, vars, scopes, lists, arrays, maps, funcs, stdout, stats, err,
                   parent, defScope, lastExit, lastAlias, lastFresh, lastReturn>>

\* case *parser.Call: the function value must be a function
OperandFunction ==
    /\ ctrl.m = "val"
    /\ Top.f = "operands"
    /\ Top.node.t = "Call"
    /\ Len(Top.done) = 0
    /\ IF IsFunction(ctrl.v) THEN Deliver(ctrl.v) /\ UNCHANGED lastError
       ELSE /\ Throw(typeError(Top.node.Function.pos, "can't call non-function type %s",
                               <<typeName(ctrl.v)>>), stats.Ops)
            /\ kont' = Tail(kont)
    /\ UNCHANGED <<pvars, prog, vars, scopes, lists, arrays, maps, funcs, stdout, stats, err,
                   parent, defScope, lastExit, lastAlias, lastFresh, lastReturn>>

\* case *parser.Map: a key must be a str
OperandKey ==
    /\ ctrl.m = "val"
    /\ Top.f = "operands"
    /\ Top.node.t = "Map"
    /\ Len(Top.done) % 2 = 0
    /\ IF ctrl.v.k = "str" THEN Deliver(ctrl.v) /\ UNCHANGED lastError
       ELSE /\ Throw(typeError(Top.node.Items[Len(Top.done) \div 2 + 1].Key.pos,
                               "map key must be str, not %s", <<typeName(ctrl.v)>>),
                     stats.Ops)
            /\ kont' = Tail(kont)
    /\ UNCHANGED <<pvars, prog, vars, scopes, lists, arrays, maps, funcs, stdout, stats, err,
                   parent, defScope, lastExit, lastAlias, lastFresh, lastReturn>>

\* history of a container made by +, or by slice(): the result, the
\* container operands, and their contents before and after
Fresh(v, operands, r) ==
    [set |-> TRUE, v |-> v, operands |-> operands,
     before |-> [i \in DOMAIN operands |-> Contents(lists, arrays, maps, operands[i])],
     after |-> [i \in DOMAIN operands |-> Contents(r.lists, r.arrays, r.maps, operands[i])],
     result |-> Contents(r.lists, r.arrays, r.maps, v)]

\* case *parser.Binary: binaryEvalFuncs[e.Operator] on the two values
FinishBinary ==
    /\ ctrl.m = "apply"
    /\ Top.f = "operands"
    /\ Top.node.t = "Binary"
    /\ ~IsAndOr(Top.node)
    /\ \E r \in binaryEvalFuncs(Top.node.Operator, Top.node.pos, Top.done[1], Top.done[2]) :
          /\ Heap(r)
          /\ Continue(r, stats.Ops)
          /\ lastFresh' = IF r.ok /\ Top.node.Operator = "+" /\ r.v.k \in {"list", "map"}
                          THEN Fresh(r.v, Top.done, r)
                          ELSE lastFresh
    /\ kont' = Tail(kont)
    /\ UNCHANGED <<pvars, prog, vars, scopes, funcs, stats, err,
                   parent, defScope, lastExit, lastAlias, lastReturn>>

\* evalAnd and evalOr: the right operand
FinishAndOr ==
    /\ ctrl.m = "apply"
    /\ Top.f = "operands"
    /\ IsAndOr(Top.node)
    /\ IF Top.done[2].k = "bool" THEN ctrl' = Val(Top.done[2]) /\ UNCHANGED lastError
       ELSE Throw(typeError(Top.node.pos,
                            IF Top.node.Operator = "and" THEN "and requires two bools"
                            ELSE "or requires two bools", << >>), stats.Ops)
    /\ kont' = Tail(kont)
    /\ UNCHANGED <<pvars, prog, vars, scopes, lists, arrays, maps, funcs, stdout, stats, err,
                   parent, defScope, lastExit, lastAlias, lastFresh, lastReturn>>

\* case *parser.Unary: unaryEvalFuncs[e.Operator] on the value
FinishUnary ==
    /\ ctrl.m = "apply"
    /\ Top.f = "operands"
    /\ Top.node.t = "Unary"
    /\ Continue(unaryEvalFuncs(Top.node.Operator, Top.node.pos, Top.done[1]), stats.Ops)
    /\ kont' = Tail(kont)
    /\ UNCHANGED <<pvars, prog, vars, scopes, lists, arrays, maps, funcs, stdout, stats, err,
                   parent, defScope, lastExit, lastAlias, lastFresh, lastReturn>>

\* case *parser.List: the new list object
FinishList ==
    /\ ctrl.m = "apply"
    /\ Top.f = "operands"
    /\ Top.node.t = "List"
    /\ LET r == OkNewList(Top.done, Len(Top.done))
       IN  Heap(r) /\ ctrl' = Val(r.v)
    /\ kont' = Tail(kont)
    /\ UNCHANGED <<pvars, prog, vars, scopes, funcs, stats, err,
                   parent, defScope, lastExit, lastAlias, lastFresh, lastError, lastReturn>>

\* the map a map literal builds from its evaluated keys and values: a
\* later item overwrites an earlier one with the same key
ItemsMap(done) ==
    LET n == Len(done) \div 2
        keys == {done[2 * i - 1].s : i \in 1..n}
        last(key) == CHOOSE i \in 1..n :
                        /\ done[2 * i - 1].s = key
                        /\ \A j \in (i + 1)..n : done[2 * j - 1].s # key
    IN  [key \in keys |-> done[2 * last(key)]]

\* case *parser.Map: the new map object
FinishMap ==
    /\ ctrl.m = "apply"
    /\ Top.f = "operands"
    /\ Top.node.t = "Map"
    /\ LET r == OkNewMap(ItemsMap(Top.done))
       IN  Heap(r) /\ ctrl' = Val(r.v)
    /\ kont' = Tail(kont)
    /\ UNCHANGED <<pvars, prog, vars, scopes, funcs, stats, err,
                   parent, defScope, lastExit, lastAlias, lastFresh, lastError, lastReturn>>

\* a variant: evalSubscript is given the position of the Subscript node,
\* which is the position of its [
FinishSubscriptAtNode ==
    /\ ctrl.m = "apply"
    /\ Top.f = "operands"
    /\ Top.node.t = "Subscript"
    /\ Continue(evalSubscript(Top.node.pos, Top.done[1], Top.done[2]), stats.Ops)
    /\ kont' = Tail(kont)
    /\ UNCHANGED <<pvars, prog, vars, scopes, lists, arrays, maps, funcs, stdout, stats, err,
                   parent, defScope, lastExit, lastAlias, lastFresh, lastReturn>>

\* case *parser.Subscript: evalSubscript
FinishSubscript ==
    /\ ctrl.m = "apply"
    /\ Top.f = "operands"
    /\ Top.node.t = "Subscript"
    /\ Continue(evalSubscript(Top.node.Subscript.pos, Top.done[1], Top.done[2]), stats.Ops)
    /\ kont' = Tail(kont)
    /\ UNCHANGED <<pvars, prog, vars, scopes, lists, arrays, maps, funcs, stdout, stats, err,
                   parent, defScope, lastExit, lastAlias, lastFresh, lastReturn>>

(***************************************************************************)
(* Calls: callFunction, userFunction.call, builtinFunction.call, and       *)
(* sort() with a key function.                                             *)
(***************************************************************************)
\* the capacity of a slice of capacity cap and length len after n more
\* append calls of one element each
RECURSIVE AppendCap(_, _, _)
AppendCap(cap, len, n) ==
    IF n = 0 THEN cap
    ELSE AppendCap(IF len + 1 <= cap THEN cap ELSE GrowCap(cap, len + 1), len + 1, n - 1)

\* the values an iterator yields when it is run to its end at once
IteratorValues(r) ==
    [i \in 1..r.it.len |-> r.arrays[r.it.arr][r.it.off + i]]

\* interp.popScope
popScope(v) ==
    SubSeq(v, 1, Len(v) - 1)

\* a variant: userFunction.call defers popScope once
ExitOneScope(v) ==
    popScope(v)

\* the deferred calls of userFunction.call: popScope, twice
ExitScopes(v) ==
    popScope(popScope(v))

\* the scope a call binds its parameters in, by interp.assign one by one
ParameterScope(parameters, args) ==
    [name \in {parameters[i] : i \in 1..Len(parameters)} |->
        args[CHOOSE i \in 1..Len(parameters) :
                /\ parameters[i] = name
                /\ \A j \in (i + 1)..Len(parameters) : parameters[j] # name]]

\* history: the scope stack, the caller's top scope and all the scopes
\* there are when a call starts
Entry ==
    [vars |-> vars, top |-> scopes[TopScope(vars)], fresh |-> Len(scopes) + 1,
     scopes |-> scopes]

\* history of a call of a user function: Entry, and the position and the
\* arguments userFunction.call is given
CallEntry(pos, args) ==
    [vars |-> vars, top |-> scopes[TopScope(vars)], fresh |-> Len(scopes) + 1,
     scopes |-> scopes, pos |-> pos, args |-> args, lists |-> Len(lists)]

\* a variant: the rest parameter takes args[len(f.Parameters):]
ellipsisArgsFromLen(args, n, argcap) ==
    Header(Len(arrays) + 1, n, Len(args) - n, argcap - n)

\* ellipsisArgs := args[len(f.Parameters)-1:], a slice of the args array
ellipsisArgs(args, n, argcap) ==
    Header(Len(arrays) + 1, n - 1, Len(args) - (n - 1), argcap - (n - 1))

IsKeySort(f, args) ==
    /\ f.k = "builtin"
    /\ f.name = "sort"
    /\ Len(args) = 2
    /\ args[1].k = "list"
    /\ lists[args[1].id].len > 1
    /\ IsFunction(args[2])

\* builtinFunction.call, but for sort() with a key function
CallBuiltin(pos, f, args, k) ==
    /\ stats' = [stats EXCEPT !.BuiltinCalls = @ + 1]
    /\ \E r \in builtins(f.name, pos, args) :
          /\ Heap(r)
          /\ Continue(r, stats.Ops)
          /\ lastFresh' = IF r.ok /\ f.name = "slice" /\ r.v.k = "list"
                          THEN Fresh(r.v, <<args[1]>>, r)
                          ELSE lastFresh
    /\ kont' = k
    /\ UNCHANGED <<vars, scopes, parent>>

\* sortFunc with a key function, up to its loop over the list
CallKeySort(pos, f, args, k) ==
    /\ stats' = [stats EXCEPT !.BuiltinCalls = @ + 1]
    /\ kont' = Push(SortFrame(pos, args[1].id, args[2],
                              Iterator(lists[args[1].id].arr, lists[args[1].id].off,
                                       lists[args[1].id].len), << >>),
                    Push(CallFunctionFrame(f, Entry), k))
    /\ ctrl' = Next_
    /\ UNCHANGED <<vars, scopes, parent, lists, arrays, maps, stdout, lastFresh, lastError>>

\* userFunction.call, up to the body
CallUser(pos, f, args, argcap, k) ==
    LET fn == funcs[f.id]
        n == Len(fn.Parameters)
        frame == CallFunctionFrame(f, CallEntry(pos, args))
    IN  IF fn.Ellipsis /\ (n = 0 \/ Len(args) < n - 1)
        THEN \* args[len(f.Parameters)-1:] is out of range: the Go runtime panics
             /\ Throw(goPanic("slice bounds out of range"), stats.Ops)
             /\ kont' = Push(frame, k)
             /\ UNCHANGED <<vars, scopes, parent, lists, arrays, maps, stdout, stats,
                            lastFresh>>
        ELSE LET newArgs == IF fn.Ellipsis
                            THEN SubSeq(args, 1, n - 1) \o <<ListV(Len(lists) + 1)>>
                            ELSE args
             IN  /\ IF fn.Ellipsis
                    THEN /\ lists' = Append(lists, ellipsisArgs(args, n, argcap))
                         /\ arrays' = Append(arrays, Padded(args, argcap))
                    ELSE UNCHANGED <<lists, arrays>>
                 /\ IF Len(newArgs) # n
                    THEN \* ensureNumArgs
                         /\ Throw(NumArgsError(pos, fn.Name, newArgs, n), stats.Ops)
                         /\ kont' = Push(frame, k)
                         /\ UNCHANGED <<vars, scopes, parent, stats>>
                    ELSE /\ scopes' = Append(scopes, ParameterScope(fn.Parameters, newArgs))
                         /\ vars' = vars \o <<fn.Closure, Len(scopes) + 1>>
                         /\ parent' = Append(parent, defScope[f.id])
                         /\ stats' = [stats EXCEPT !.UserCalls = @ + 1]
                         /\ kont' = Push(BlockFrame(fn.Body),
                                         Push(UserCallFrame(f, Len(scopes) + 1),
                                              Push(frame, k)))
                         /\ ctrl' = Next_
                         /\ UNCHANGED lastError
                 /\ UNCHANGED <<maps, stdout, lastFresh>>

\* interp.callFunction: defer the recover, then f.call
callFunction(pos, f, args, argcap, k) ==
    IF f.k = "func" THEN CallUser(pos, f, args, argcap, k)
    ELSE IF IsKeySort(f, args) THEN CallKeySort(pos, f, args, k)
    ELSE CallBuiltin(pos, f, args, k)

\* case *parser.Call: the arguments, the ... expansion, and the call
FinishCall ==
    /\ ctrl.m = "apply"
    /\ Top.f = "operands"
    /\ Top.node.t = "Call"
    /\ LET e == Top.node
           f == Top.done[1]
           args == Tail(Top.done)
           cap == AppendCap(0, 0, Len(args))
       IN  IF e.Ellipsis
           THEN \E r \in getIterator(e.Arguments[Len(args)].pos, args[Len(args)]) :
                   IF r.ok
                   THEN callFunction(e.Function.pos, f, Front(args) \o IteratorValues(r),
                                     AppendCap(cap, Len(args) - 1, r.it.len), Tail(kont))
                   ELSE /\ Throw(r.p, stats.Ops)
                        /\ kont' = Tail(kont)
                        /\ UNCHANGED <<vars, scopes, parent, lists, arrays, maps, stdout,
                                       stats, lastFresh>>
           ELSE callFunction(e.Function.pos, f, args, cap, Tail(kont))
    /\ UNCHANGED <<pvars, prog, funcs, err, defScope, lastExit, lastAlias, lastReturn>>

\* userFunction.call: the body fell through, return Value(nil)
UserFunctionReturn ==
    /\ ctrl.m = "next"
    /\ Top.f = "userFunction.call"
    /\ vars' = ExitScopes(vars)
    /\ kont' = Tail(kont)
    /\ ctrl' = Val(NilV)
    /\ UNCHANGED <<pvars, prog, scopes, lists, arrays, maps, funcs, stdout, stats, err,
                   parent, defScope, lastExit, lastAlias, lastFresh, lastError, lastReturn>>

\* history of a call of a user function that ended
Exit(how, value, frame, v, k) ==
    IF frame.fn.k = "func"
    THEN [set |-> TRUE, how |-> how, value |-> value, fn |-> frame.fn,
          before |-> frame.entry.vars, after |-> v,
          topBefore |-> frame.entry.top,
          topAfter |-> scopes[TopScope(frame.entry.vars)],
          scopesBefore |-> frame.entry.scopes,
          scopesAfter |-> SubSeq(scopes, 1, Len(frame.entry.scopes)),
          fresh |-> frame.entry.fresh, kont |-> k, ret |-> lastReturn]
    ELSE lastExit

\* interp.callFunction returns what f.call returned
CallFunctionReturn ==
    /\ ctrl.m = "val"
    /\ Top.f = "callFunction"
    /\ kont' = Tail(kont)
    /\ lastExit' = Exit("fall", ctrl.v, Top, vars, Tail(kont))
    /\ UNCHANGED <<pvars, prog, vars, scopes, lists, arrays, maps, funcs, stdout, stats, ctrl, err,
                   parent, defScope, lastAlias, lastFresh, lastError, lastReturn>>

\* sortFunc with a key function: interp.callFunction on the next element
SortKeyCall ==
    /\ Running
    /\ ctrl.m = "next"
    /\ Top.f = "sortFunc"
    /\ HasNext(Top.it)
    /\ callFunction(Top.pos, Top.keyFunc, <<IteratorValue(Top.it)>>, 1,
                    Push([Top EXCEPT !.it.index = @ + 1,
                                     !.pairs = Append(@, [value |-> IteratorValue(Top.it),
                                                          key |-> NilV])],
                         Tail(kont)))
    /\ UNCHANGED <<pvars, prog, funcs, err, defScope, lastExit, lastAlias, lastReturn>>

\* sortFunc with a key function: pairs[i] = pair{v, key}
SortKeyValue ==
    /\ ctrl.m = "val"
    /\ Top.f = "sortFunc"
    /\ kont' = Push([Top EXCEPT !.pairs[Len(Top.pairs)].key = ctrl.v], Tail(kont))
    /\ ctrl' = Next_
    /\ UNCHANGED <<pvars, prog, vars, scopes, lists, arrays, maps, funcs, stdout, stats, err,
                   parent, defScope, lastExit, lastAlias, lastFresh, lastError, lastReturn>>

\* a variant: an insertion sort that moves an element past its equals
RECURSIVE insertionSortPairsUnstable(_, _, _)
insertionSortPairsUnstable(a, i, j) ==
    IF i > Len(a) THEN {[elems |-> a, out |-> "done"]}
    ELSE IF j <= 1 THEN insertionSortPairsUnstable(a, i + 1, i + 1)
    ELSE UNION {CASE o = "false" -> insertionSortPairsUnstable(Swap(a, j, j - 1), i, j - 1)
                  [] o = "true" -> insertionSortPairsUnstable(a, i + 1, i + 1)
                  [] OTHER -> {[elems |-> a, out |-> o]} :
                o \in evalLess(a[j - 1].key, a[j].key)}

\* sort.SliceStable on the pairs, by evalLess on the keys
RECURSIVE insertionSortPairs(_, _, _)
insertionSortPairs(a, i, j) ==
    IF i > Len(a) THEN {[elems |-> a, out |-> "done"]}
    ELSE IF j <= 1 THEN insertionSortPairs(a, i + 1, i + 1)
    ELSE UNION {CASE o = "true" -> insertionSortPairs(Swap(a, j, j - 1), i, j - 1)
                  [] o = "false" -> insertionSortPairs(a, i + 1, i + 1)
                  [] OTHER -> {[elems |-> a, out |-> o]} :
                o \in evalLess(a[j].key, a[j - 1].key)}

\* sortFunc with a key function: sort the pairs, *list = values
SortKeyFinish ==
    /\ ctrl.m = "next"
    /\ Top.f = "sortFunc"
    /\ ~HasNext(Top.it)
    /\ \E s \in insertionSortPairs(Top.pairs, 2, 2) :
          IF s.out = "done"
          THEN /\ lists' = [lists EXCEPT ![Top.list] =
                                Header(Len(arrays) + 1, 0, Len(s.elems), Len(s.elems))]
               /\ arrays' = Append(arrays, [i \in 1..Len(s.elems) |-> s.elems[i].value])
               /\ ctrl' = Val(NilV)
               /\ UNCHANGED lastError
          ELSE /\ Throw(IF s.out = "panic" THEN UncomparablePanic
                        ELSE ComparisonError(Top.pos), stats.Ops)
               /\ UNCHANGED <<lists, arrays>>
    /\ kont' = Tail(kont)
    /\ UNCHANGED <<pvars, prog, vars, scopes, maps, funcs, stdout, stats, err,
                   parent, defScope, lastExit, lastAlias, lastFresh, lastReturn>>

(***************************************************************************)
(* Panics: the frames are popped one by one with their deferred calls.     *)
(***************************************************************************)
\* a variant: a loop stops a return, which only leaves the loop
UnwindToLoop ==
    /\ ctrl.m = "panic"
    /\ Top.f \in {"executeBlock", "operands", "while", "for", "sortFunc"}
    /\ kont' = Tail(kont)
    /\ ctrl' = IF ctrl.p.kind = "returnResult" /\ Top.f \in {"while", "for"} THEN Next_
               ELSE ctrl
    /\ UNCHANGED <<pvars, prog, vars, scopes, lists, arrays, maps, funcs, stdout, stats, err,
                   parent, defScope, lastExit, lastAlias, lastFresh, lastError, lastReturn>>

\* a frame without deferred calls is left
UnwindFrame ==
    /\ ctrl.m = "panic"
    /\ Top.f \in {"executeBlock", "operands", "while", "for", "sortFunc"}
    /\ kont' = Tail(kont)
    /\ UNCHANGED <<pvars, prog, vars, scopes, lists, arrays, maps, funcs, stdout, stats, ctrl, err,
                   parent, defScope, lastExit, lastAlias, lastFresh, lastError, lastReturn>>

\* a variant: popScope is called at the end of userFunction.call, not
\* deferred, so a panic leaves the two scopes on the stack
UnwindWithoutDefer ==
    /\ ctrl.m = "panic"
    /\ Top.f = "userFunction.call"
    /\ kont' = Tail(kont)
    /\ UNCHANGED <<pvars, prog, vars, scopes, lists, arrays, maps, funcs, stdout, stats, ctrl, err,
                   parent, defScope, lastExit, lastAlias, lastFresh, lastError, lastReturn>>

\* userFunction.call is left: its two deferred popScope calls run
UnwindUserCall ==
    /\ ctrl.m = "panic"
    /\ Top.f = "userFunction.call"
    /\ vars' = ExitScopes(vars)
    /\ kont' = Tail(kont)
    /\ UNCHANGED <<pvars, prog, scopes, lists, arrays, maps, funcs, stdout, stats, ctrl, err,
                   parent, defScope, lastExit, lastAlias, lastFresh, lastError, lastReturn>>

\* the deferred function of callFunction recovers a returnResult
RecoverReturn ==
    /\ ctrl.m = "panic"
    /\ ctrl.p.kind = "returnResult"
    /\ Top.f = "callFunction"
    /\ ctrl' = Val(ctrl.p.value)
    /\ kont' = Tail(kont)
    /\ lastExit' = Exit("return", ctrl.p.value, Top, vars, Tail(kont))
    /\ lastReturn' = [lastReturn EXCEPT !.pending = FALSE]
    /\ UNCHANGED <<pvars, prog, vars, scopes, lists, arrays, maps, funcs, stdout, stats, err,
                   parent, defScope, lastAlias, lastFresh, lastError>>

\* a variant: the deferred function of callFunction recovers every panic
\* and the call returns nil
RecoverEverything ==
    /\ ctrl.m = "panic"
    /\ ctrl.p.kind # "returnResult"
    /\ Top.f = "callFunction"
    /\ kont' = Tail(kont)
    /\ ctrl' = Val(NilV)
    /\ lastExit' = Exit("error", NilV, Top, vars, Tail(kont))
    /\ UNCHANGED <<pvars, prog, vars, scopes, lists, arrays, maps, funcs, stdout, stats, err,
                   parent, defScope, lastAlias, lastFresh, lastError, lastReturn>>

\* the deferred function of callFunction panics again with anything else
RepanicCallFunction ==
    /\ ctrl.m = "panic"
    /\ ctrl.p.kind # "returnResult"
    /\ Top.f = "callFunction"
    /\ kont' = Tail(kont)
    /\ lastExit' = Exit("error", NilV, Top, vars, Tail(kont))
    /\ UNCHANGED <<pvars, prog, vars, scopes, lists, arrays, maps, funcs, stdout, stats, ctrl, err,
                   parent, defScope, lastAlias, lastFresh, lastError, lastReturn>>

\* what the deferred function of Execute makes of a panic: the error
\* Execute returns, or "crash" when it panics again
Recovered(p) ==
    CASE IsError(p) -> p
      [] p.kind = "returnResult" -> runtimeError(p.pos, "can't return at top level", << >>)
      [] OTHER -> [kind |-> "crash"]

\* the deferred function of Execute
ExecuteRecover ==
    /\ ctrl.m = "panic"
    /\ Top.f = "execute"
    /\ kont' = << >>
    /\ err' = Recovered(ctrl.p)
    /\ ctrl' = [m |-> IF Recovered(ctrl.p).kind = "crash" THEN "crashed" ELSE "done"]
    /\ lastReturn' = IF lastReturn.set THEN [lastReturn EXCEPT !.pending = FALSE]
                     ELSE lastReturn
    /\ UNCHANGED <<pvars, prog, vars, scopes, lists, arrays, maps, funcs, stdout, stats,
                   parent, defScope, lastExit, lastAlias, lastFresh, lastError>>

(***************************************************************************)
(* The specification.                                                      *)
(***************************************************************************)
Next ==
    \/ StepBlock \/ EndBlock \/ ExecuteReturn
    \/ ExecAssign \/ FinishAssignVariable \/ FinishAssignSubscript
    \/ ExecIf \/ FinishIf
    \/ ExecWhile \/ FinishWhile \/ WhileAgain
    \/ ExecFor \/ FinishFor \/ ForNext
    \/ ExecExpressionStatement \/ FinishExpressionStatement
    \/ ExecFunctionDefinition
    \/ ExecReturn \/ FinishReturn
    \/ EvalLiteral \/ EvalVariable \/ EvalFunctionExpression
    \/ EvalBinary \/ EvalUnary \/ EvalCall \/ EvalList \/ EvalMap \/ EvalSubscript
    \/ Operand \/ OperandAndOr \/ OperandFunction \/ OperandKey
    \/ FinishBinary \/ FinishAndOr \/ FinishUnary \/ FinishList \/ FinishMap
    \/ FinishSubscript \/ FinishCall
    \/ UserFunctionReturn \/ CallFunctionReturn
    \/ SortKeyCall \/ SortKeyValue \/ SortKeyFinish
    \/ UnwindFrame \/ UnwindUserCall \/ RecoverReturn \/ RepanicCallFunction
    \/ ExecuteRecover

Spec ==
    Init /\ [][Next]_allvars


(***************************************************************************)
(* The tokenizer and the parser at work on a source text: a caller makes   *)
(* a Tokenizer and calls Next() on it, or calls ParseExpression or         *)
(* ParseProgram, and prints and parses again an expression it got.         *)
(***************************************************************************)
\* the length of the texts that are tried exhaustively
MaxLen ==
    3

\* the calls of Next() on one tokenizer
MaxTokens ==
    45

\* the calls of Next() that are made after the first EOF
MaxEOFs ==
    2

\* comment, string, newline, name, space, a byte that is not UTF-8
Alphabet ==
    {47, 34, 10, 97, 32, 255}

\* every text over the alphabet up to the length
ShortSources ==
    UNION {[1..n -> Alphabet] : n \in 0..MaxLen}

Inputs ==
    Sources \cup ShortSources \cup OperatorSources \cup EllipsisSources

ParserInit ==
    /\ src \in Inputs
    /\ tokenizer = NewTokenizer(src)
    /\ tokens = << >>
    /\ parsed = None
    /\ reparsed = None
    /\ prog = << >>
    /\ vars = <<1>>
    /\ scopes = <<[name \in BuiltinNames |-> BuiltinV(name)]>>
    /\ lists = << >>
    /\ arrays = << >>
    /\ maps = << >>
    /\ funcs = << >>
    /\ stdout = << >>
    /\ stats = [Ops |-> 0, UserCalls |-> 0, BuiltinCalls |-> 0]
    /\ ctrl = [m |-> "done"]
    /\ kont = << >>
    /\ err = NoError
    /\ parent = <<0>>
    /\ defScope = << >>
    /\ lastExit = None
    /\ lastAlias = None
    /\ lastFresh = None
    /\ lastError = None
    /\ lastReturn = None

\* the EOF tokens among the tokens returned so far
EOFs ==
    Cardinality({i \in DOMAIN tokens : tokens[i].tok = "EOF"})

\* Next() returned k: the tokenizer after it and the token
NextReturned(k) ==
    /\ tokenizer' = k.t
    /\ tokens' = Append(tokens, [pos |-> k.pos, tok |-> k.tok, val |-> k.val])

\* a call of t.Next()
CallNext ==
    /\ ~parsed.set
    /\ Len(tokens) < MaxTokens
    /\ EOFs <= MaxEOFs
    /\ NextReturned(NextToken(tokenizer))
    /\ UNCHANGED <<ivars, src, parsed, reparsed>>

\* a call of ParseExpression(src)
CallParseExpression ==
    /\ ~parsed.set
    /\ tokens = << >>
    /\ parsed' = [set |-> TRUE, f |-> "ParseExpression", r |-> ParseExpression(src)]
    /\ UNCHANGED <<ivars, src, tokenizer, tokens, reparsed>>

\* a call of ParseProgram(src)
CallParseProgram ==
    /\ ~parsed.set
    /\ tokens = << >>
    /\ parsed' = [set |-> TRUE, f |-> "ParseProgram", r |-> ParseProgram(src)]
    /\ UNCHANGED <<ivars, src, tokenizer, tokens, reparsed>>

\* a text that String() gave and what ParseExpression makes of it
Reparsed(text) ==
    [set |-> TRUE, text |-> text, r |-> ParseExpression(text)]

\* the expression that was parsed is printed with String() and the text
\* is given to ParseExpression
CallString ==
    /\ parsed.set
    /\ parsed.f = "ParseExpression"
    /\ parsed.r.kind = "ok"
    /\ ~reparsed.set
    /\ reparsed' = Reparsed(String(parsed.r.v))
    /\ UNCHANGED <<ivars, src, tokenizer, tokens, parsed>>

ParserNext ==
    \/ CallNext
    \/ CallParseExpression
    \/ CallParseProgram
    \/ CallString

ParserSpec ==
    ParserInit /\ [][ParserNext]_allvars

(***************************************************************************)
(* Properties.                                                             *)
(***************************************************************************)
Returned ==
    lastExit.set /\ lastExit.how \in {"fall", "return"}

\* C1: after every call of a user function, whether the body fell through
\* or left by a return nested in if/while/for blocks, the scope stack is
\* the same sequence of scopes as immediately before the call
ScopeStackRestored ==
    Returned => lastExit.after = lastExit.before

\* a call ended by a return inside two loops of the body, after it had
\* pushed its two scopes, and the scope stack is as before
ScopeStackRestoredWitness ==
    /\ lastExit.set
    /\ lastExit.how = "return"
    /\ lastExit.ret.loops >= 2
    /\ lastExit.fresh <= Len(scopes)
    /\ lastExit.after = lastExit.before

\* a call whose body fell through, and the scope stack is as before
ScopeStackFallWitness ==
    /\ lastExit.set
    /\ lastExit.how = "fall"
    /\ DOMAIN scopes[lastExit.fresh] # {}
    /\ lastExit.after = lastExit.before

\* C2: after a call of a user function has returned, the caller's top scope
\* binds the same names to the same values as before the call, and so does
\* every scope that was there before the call: what the callee assigned
\* went to scopes made during the call
ScopeIsolation ==
    Returned =>
        /\ lastExit.topAfter = lastExit.topBefore
        /\ lastExit.scopesAfter = lastExit.scopesBefore

\* the callee bound a name that the caller binds too, to another value, and
\* the caller's binding is as before
ScopeIsolationWitness ==
    /\ Returned
    /\ lastExit.fresh <= Len(scopes)
    /\ \E name \in DOMAIN scopes[lastExit.fresh] \cap DOMAIN lastExit.topBefore :
          scopes[lastExit.fresh][name] # lastExit.topBefore[name]
    /\ lastExit.topAfter = lastExit.topBefore

\* the design with parent pointers: lookup from a scope node up its parents
RECURSIVE lookupParent(_, _)
lookupParent(scope, name) ==
    IF scope = 0 THEN [ok |-> FALSE, v |-> NilV]
    ELSE IF name \in DOMAIN scopes[scope] THEN [ok |-> TRUE, v |-> scopes[scope][name]]
    ELSE lookupParent(parent[scope], name)

AtVariable ==
    ctrl.m = "eval" /\ ctrl.e.t = "Variable"

\* C3: every variable reference resolves in the scope stack to what it
\* resolves to in the design where each scope has a parent pointer and a
\* function captures its defining scope: the same value, or no value in both
StackMatchesParentPointers ==
    AtVariable => lookup(ctrl.e.Name) = lookupParent(TopScope(vars), ctrl.e.Name)

\* C4: name resolution is lexical: a name that is bound neither in the
\* callee's local scope nor in a scope that encloses its definition (bound
\* only in a caller's local scope) is not found in the callee's body
LexicalResolution ==
    AtVariable /\ ~lookupParent(TopScope(vars), ctrl.e.Name).ok => ~lookup(ctrl.e.Name).ok

\* the userFunction.call frame of the innermost activation
RECURSIVE Activation(_)
Activation(k) ==
    IF k = << >> THEN None
    ELSE IF Head(k).f = "userFunction.call"
    THEN [set |-> TRUE, fn |-> Head(k).fn.id, local |-> Head(k).local]
    ELSE Activation(Tail(k))

\* a reference to a name that the running function does not bind itself
\* but the scope it was created in does
AtCaptured ==
    /\ AtVariable
    /\ Activation(kont).set
    /\ ctrl.e.Name \notin DOMAIN scopes[Activation(kont).local]
    /\ ctrl.e.Name \in DOMAIN scopes[defScope[Activation(kont).fn]]

\* C5: a function value captures by reference the local scope of the
\* activation that created it: a name of that scope resolves to the value
\* the scope holds now, also after that activation has returned, and
\* functions of different activations hold different scopes
ClosureCapture ==
    /\ \A f \in DOMAIN funcs : funcs[f].Closure = defScope[f]
    /\ AtCaptured =>
          lookup(ctrl.e.Name) =
             [ok |-> TRUE, v |-> scopes[defScope[Activation(kont).fn]][ctrl.e.Name]]

\* a function resolves a name in the local scope of the activation that
\* created it, after that activation has returned
ClosureCaptureWitness ==
    /\ AtCaptured
    /\ defScope[Activation(kont).fn] # 1
    /\ \A i \in 1..Len(kont) :
          kont[i].f = "userFunction.call" => kont[i].local # defScope[Activation(kont).fn]
    /\ lookup(ctrl.e.Name).ok

IsContainer(v) ==
    v.k \in {"list", "map"}

Seen(v) ==
    Contents(lists, arrays, maps, v)

\* C6: after x = y with y a list or a map, and until one of the names is
\* assigned again, what is seen through x is what is seen through y; with
\* y nil, a bool, an int or a str, y keeps its value whatever happens to x
AliasSemantics ==
    lastAlias.set =>
        IF IsContainer(lastAlias.value)
        THEN ~lastAlias.rebound =>
                Seen(scopes[lastAlias.xs][lastAlias.x]) = Seen(scopes[lastAlias.ys][lastAlias.y])
        ELSE scopes[lastAlias.ys][lastAlias.y] = lastAlias.value

\* the container was mutated after x = y, and both names see the mutation
AliasSemanticsWitness ==
    /\ lastAlias.set
    /\ IsContainer(lastAlias.value)
    /\ ~lastAlias.rebound
    /\ Seen(scopes[lastAlias.xs][lastAlias.x]) # lastAlias.contents
    /\ Seen(scopes[lastAlias.xs][lastAlias.x]) = Seen(scopes[lastAlias.ys][lastAlias.y])

\* x was assigned again after x = y with y an int, and y has kept its value
AliasPrimitiveWitness ==
    /\ lastAlias.set
    /\ lastAlias.value.k = "int"
    /\ lastAlias.rebound
    /\ scopes[lastAlias.xs][lastAlias.x] # lastAlias.value
    /\ scopes[lastAlias.ys][lastAlias.y] = lastAlias.value

\* the backing array of a list value, 0 for a value that has none
ArrayOf(v) ==
    IF v.k = "list" THEN lists[v.id].arr ELSE 0

\* C7: list + list, map + map and slice(list, a, b) leave their operands
\* as they were and give a new container: no operand is the result object,
\* and the result list never lives in the backing array of an operand
FreshContainer ==
    lastFresh.set =>
        /\ lastFresh.after = lastFresh.before
        /\ \A i \in DOMAIN lastFresh.operands :
              /\ lastFresh.operands[i] # lastFresh.v
              /\ lastFresh.v.k = "list" => ArrayOf(lastFresh.operands[i]) # ArrayOf(lastFresh.v)

\* the result of slice() was mutated afterwards, its operand was mutated
\* too, and neither sees the other's change
FreshContainerWitness ==
    /\ lastFresh.set
    /\ Len(lastFresh.operands) = 1
    /\ Seen(lastFresh.v) # lastFresh.result
    /\ Seen(lastFresh.operands[1]) # lastFresh.after[1]
    /\ Len(Seen(lastFresh.v).elems) > Len(lastFresh.result.elems)
    /\ ArrayOf(lastFresh.operands[1]) # ArrayOf(lastFresh.v)

\* the result of + was mutated afterwards and the operands are as before
FreshPlusWitness ==
    /\ lastFresh.set
    /\ Len(lastFresh.operands) = 2
    /\ Seen(lastFresh.v) # lastFresh.result
    /\ \A i \in 1..2 : Seen(lastFresh.operands[i]) = lastFresh.after[i]

\* C8: while a return is on its way nothing else runs (no statement, no
\* further turn of a loop); the innermost enclosing call ends with the value
\* of the return and execution goes on in the frames under that call; a
\* body that falls through returns nil
ReturnUnwinding ==
    /\ lastReturn.set /\ lastReturn.pending =>
          /\ ctrl.m = "panic"
          /\ ctrl.p.kind = "returnResult"
          /\ ctrl.p.value = lastReturn.value
          /\ stats.Ops = lastReturn.ops
    /\ lastExit.set /\ lastExit.how = "return" =>
          /\ lastExit.value = lastExit.ret.value
          /\ lastExit.kont = lastExit.ret.outer
    /\ lastExit.set /\ lastExit.how = "fall" => lastExit.value = NilV

\* a call ended by a return inside two loops of the body, with the value
\* of the return
ReturnUnwindingWitness ==
    /\ lastExit.set
    /\ lastExit.how = "return"
    /\ lastExit.ret.loops >= 2
    /\ lastExit.value = lastExit.ret.value
    /\ lastExit.value.k = "int"
    /\ ctrl.m = "val"

\* C9: after a return outside any function activation nothing more is
\* executed or written, and Execute returns the RuntimeError "can't return
\* at top level" at the position of the return keyword
TopLevelReturn ==
    lastReturn.set /\ lastReturn.toplevel =>
        /\ ctrl.m \in {"panic", "done"}
        /\ stats.Ops = lastReturn.ops
        /\ stdout = lastReturn.stdout
        /\ ctrl.m = "done" =>
              err = runtimeError(lastReturn.pos, "can't return at top level", << >>)

\* Execute has ended on a return that was inside top-level loops
TopLevelReturnWitness ==
    /\ ctrl.m = "done"
    /\ lastReturn.set
    /\ lastReturn.toplevel
    /\ lastReturn.loops >= 2
    /\ err.kind = "runtime error"
    /\ err.pos = lastReturn.pos

\* C10: once a runtime error is raised nothing more is executed or written,
\* no frame stops the panic, and Execute returns that error, which has a
\* source position
ErrorAborts ==
    lastError.set =>
        /\ ctrl.m \in {"panic", "done"}
        /\ stats.Ops = lastError.ops
        /\ stdout = lastError.stdout
        /\ ctrl.m = "panic" => ctrl.p = lastError.p
        /\ ctrl.m = "done" =>
              /\ err = lastError.p
              /\ err.kind \in ErrorKinds
              /\ err.pos.Line >= 1 /\ err.pos.Column >= 1

\* Execute has ended on an error that was raised two calls deep
ErrorAbortsWitness ==
    /\ ctrl.m = "done"
    /\ lastError.set
    /\ err = lastError.p
    /\ lastExit.set
    /\ lastExit.how = "error"
    /\ Len(lastExit.before) = 1
    /\ stats.UserCalls >= 2

\* userFunction.call has pushed its scopes and bound the parameters, and
\* the body has not begun
AtCallStart ==
    /\ ctrl.m = "next"
    /\ Len(kont) >= 3
    /\ kont[1].f = "executeBlock"
    /\ kont[2].f = "userFunction.call"
    /\ kont[3].f = "callFunction"
    /\ kont[1].rest = funcs[kont[2].fn.id].Body
    /\ kont[3].entry.fresh = kont[2].local

\* the parameters that no later parameter of the same name overwrites
Unshadowed(parameters) ==
    {i \in 1..Len(parameters) :
        \A j \in (i + 1)..Len(parameters) : parameters[j] # parameters[i]}

\* C11: a call of a function with parameters p1..pk and ellipsis binds the
\* first k-1 arguments to p1..p(k-1) and pk to a new list of the other
\* arguments in order; the list shares its storage with no other list (so
\* not with a list spread at the call), at the call and ever after
VariadicBinding ==
    /\ \A i, j \in DOMAIN lists : i # j => lists[i].arr # lists[j].arr
    /\ AtCallStart /\ funcs[kont[2].fn.id].Ellipsis =>
          LET parameters == funcs[kont[2].fn.id].Parameters
              k == Len(parameters)
              args == kont[3].entry.args
              scope == scopes[kont[2].local]
          IN  /\ Len(args) >= k - 1
              /\ \A i \in Unshadowed(parameters) \ {k} : scope[parameters[i]] = args[i]
              /\ scope[parameters[k]].k = "list"
              /\ scope[parameters[k]].id > kont[3].entry.lists
              /\ Elems(scope[parameters[k]].id) = SubSeq(args, k, Len(args))

\* a call with a spread list has bound the rest parameter to a list with the
\* elements of the spread list after the first, and it is another list
VariadicBindingWitness ==
    /\ AtCallStart
    /\ funcs[kont[2].fn.id].Ellipsis
    /\ Len(funcs[kont[2].fn.id].Parameters) = 2
    /\ \E j \in 1..kont[3].entry.lists :
          /\ Len(Elems(j)) = 3
          /\ Elems(j) = kont[3].entry.args
          /\ Elems(scopes[kont[2].local]["rest"].id) = Tail(Elems(j))
          /\ lists[scopes[kont[2].local]["rest"].id].arr # lists[j].arr

\* the rest parameter of such a call was mutated in the body and the spread
\* list is as it was
VariadicMutatedWitness ==
    /\ lastExit.set
    /\ lastExit.how = "return"
    /\ lastExit.value.k = "list"
    /\ Len(Elems(lastExit.value.id)) = 3
    /\ \E j \in DOMAIN lists :
          /\ j # lastExit.value.id
          /\ Len(Elems(j)) = 3
          /\ Elems(j)[2] # Elems(lastExit.value.id)[1]
          /\ Elems(j)[3] = Elems(lastExit.value.id)[2]

\* the argument counts a user function accepts
Accepts(fn, n) ==
    IF fn.Ellipsis THEN n >= Len(fn.Parameters) - 1 ELSE n = Len(fn.Parameters)

\* userFunction.call has panicked on an argument count it does not accept
AtArityMismatch ==
    /\ ctrl.m = "panic"
    /\ Top.f = "callFunction"
    /\ Top.fn.k = "func"
    /\ ~Accepts(funcs[Top.fn.id], Len(Top.entry.args))

\* C12: a call of a user function with an argument count it does not accept
\* panics with a TypeError at the position of the call, with no scope
\* pushed, no parameter bound and no statement of the body run
ArityChecked ==
    AtArityMismatch =>
        /\ ctrl.p.kind = "type error"
        /\ ctrl.p.pos = Top.entry.pos
        /\ vars = Top.entry.vars
        /\ scopes = Top.entry.scopes
        /\ lastError.set /\ lastError.ops = stats.Ops

\* the error evalAnd and evalOr raise for an operand that is not a bool
AndOrError(e, p) ==
    /\ p.kind = "type error"
    /\ p.pos = e.pos
    /\ p.format = (IF e.Operator = "and" THEN "and requires two bools"
                   ELSE "or requires two bools")

\* the value of the left operand for which the right operand is evaluated
Decisive(e) ==
    BoolV(e.Operator = "and")

\* every `and` and `or` under evaluation: the left operand is evaluated
\* first, and the right operand only after the left gave the deciding bool
AndOrFrames ==
    \A i \in DOMAIN kont :
        kont[i].f = "operands" /\ IsAndOr(kont[i].node) =>
            /\ Len(kont[i].done) = 0 => kont[i].todo = <<kont[i].node.Right>>
            /\ Len(kont[i].done) >= 1 =>
                  kont[i].done[1] = Decisive(kont[i].node) /\ kont[i].todo = << >>
            /\ i = 1 /\ ctrl.m = "eval" =>
                  /\ Len(kont[i].done) <= 1
                  /\ ctrl.e = (IF Len(kont[i].done) = 0 THEN kont[i].node.Left
                               ELSE kont[i].node.Right)

\* the left operand of an `and` or `or` has its value
AtLeftValue ==
    ctrl.m = "val" /\ Top.f = "operands" /\ IsAndOr(Top.node) /\ Len(Top.done) = 0

\* the right operand of an `and` or `or` has its value
AtRightValue ==
    ctrl.m = "val" /\ Top.f = "operands" /\ IsAndOr(Top.node) /\ Len(Top.done) = 1

ShortCircuitStep ==
    /\ AndOrFrames'
    /\ AtLeftValue =>
          /\ stdout' = stdout /\ stats' = stats
          /\ IF ctrl.v.k # "bool"
             THEN ctrl'.m = "panic" /\ AndOrError(Top.node, ctrl'.p) /\ kont' = Tail(kont)
             ELSE IF ctrl.v = Decisive(Top.node)
             THEN /\ ctrl' = Eval(Top.node.Right)
                  /\ kont' = Push(OperandsFrame(Top.node, <<ctrl.v>>, << >>), Tail(kont))
             ELSE ctrl' = Val(ctrl.v) /\ kont' = Tail(kont)
    /\ AtRightValue =>
          /\ ctrl' = Apply
          /\ kont' = Push(OperandsFrame(Top.node, <<Top.done[1], ctrl.v>>, << >>), Tail(kont))
    /\ ctrl.m = "apply" /\ Top.f = "operands" /\ IsAndOr(Top.node) =>
          /\ kont' = Tail(kont)
          /\ IF Top.done[2].k = "bool" THEN ctrl' = Val(Top.done[2])
             ELSE ctrl'.m = "panic" /\ AndOrError(Top.node, ctrl'.p)

\* C13: the right operand of `l and r` is evaluated iff l is true, and of
\* `l or r` iff l is false; l is evaluated once and first; an l that is not
\* a bool raises a TypeError with r not evaluated, and an r that is not a
\* bool raises a TypeError when it has been evaluated
ShortCircuit ==
    [][ShortCircuitStep]_allvars

\* a program has run two operands with side effects that were evaluated and
\* two that were short-circuited: it printed 2 and 8 and never 4 or 6
ShortCircuitWitness ==
    /\ prog = Prog_short_circuit
    /\ ctrl.m = "done"
    /\ \E i \in DOMAIN stdout : stdout[i] = 50
    /\ \E i \in DOMAIN stdout : stdout[i] = 56
    /\ \A i \in DOMAIN stdout : stdout[i] \notin {52, 54}

\* a for loop is about to ask its iterator for the next value
AtFor ==
    ctrl.m = "next" /\ Top.f = "for"

\* the value a for loop's iterator produces next
Produced(it) ==
    arrays[it.arr][it.off + it.index + 1]

ForVariableStep ==
    /\ ctrl.m = "apply" /\ Top.f = "operands" /\ Top.node.t = "For" =>
          scopes' = scopes /\ vars' = vars
    /\ AtFor =>
          /\ vars' = vars /\ stdout' = stdout /\ lists' = lists /\ arrays' = arrays
          /\ IF Top.it.index < Top.it.len
             THEN /\ scopes' = [scopes EXCEPT ![vars[Len(vars)]] =
                                   Bind(@, Top.s.Name, Produced(Top.it))]
                  /\ Len(kont') = Len(kont) + 1
                  /\ kont'[1] = BlockFrame(Top.s.Body)
                  /\ kont'[2].f = "for" /\ kont'[2].it.index = Top.it.index + 1
             ELSE /\ scopes' = scopes
                  /\ kont' = Tail(kont)

\* C14: every turn of a for loop assigns the value the iterator produces to
\* the loop name in the top scope, then runs the body; the end of the loop
\* assigns nothing and unbinds nothing, so a loop over an empty iterable
\* leaves every binding as it was
ForVariable ==
    [][ForVariableStep]_allvars

\* a loop over three values has ended and the name holds the last of them
ForVariableWitness ==
    /\ AtFor
    /\ Top.it.len = 3 /\ Top.it.index = 3
    /\ Top.s.Name \in DOMAIN scopes[TopScope(vars)]
    /\ scopes[TopScope(vars)][Top.s.Name] = arrays[Top.it.arr][Top.it.off + 3]
    /\ prog = Prog_for_variable

\* a loop over an empty iterable has ended: in one program the name keeps
\* its value, in a function the name is bound in no scope
ForEmptyWitness ==
    /\ AtFor
    /\ Top.it.len = 0
    /\ \/ /\ Top.s.Name \in DOMAIN scopes[TopScope(vars)]
          /\ scopes[TopScope(vars)][Top.s.Name] = StrV(<<111, 108, 100>>)
       \/ LookupIndex(Top.s.Name) = 0

\* the operands of a call of sort() with n arguments, the first a list,
\* have their values
AtSortCall(n) ==
    /\ ctrl.m = "apply"
    /\ Top.f = "operands"
    /\ Top.node.t = "Call"
    /\ ~Top.node.Ellipsis
    /\ Len(Top.done) = n + 1
    /\ Top.done[1] = BuiltinV("sort")
    /\ Top.done[2].k = "list"

\* sort() with a key function is between two calls of the key function
AtSortNext ==
    ctrl.m = "next" /\ Top.f = "sortFunc"

\* a < b holds
Less(a, b) ==
    evalLess(a, b) = {"true"}

\* after holds the values of the pairs, in non-decreasing order of the
\* keys, those with equal keys in the order they have in pairs
StableSorted(pairs, after) ==
    /\ Len(after) = Len(pairs)
    /\ \E pi \in Perms(DOMAIN pairs) :
          /\ \A i \in DOMAIN pairs : after[i] = pairs[pi[i]].value
          /\ \A i, j \in DOMAIN pairs :
                i < j => /\ ~Less(pairs[pi[j]].key, pairs[pi[i]].key)
                         /\ ~Less(pairs[pi[i]].key, pairs[pi[j]].key) => pi[i] < pi[j]

\* the elements of a list as pairs, each element its own key
OwnKeys(elems) ==
    [i \in DOMAIN elems |-> [value |-> elems[i], key |-> elems[i]]]

\* the calls made so far
Calls(st) ==
    st.UserCalls + st.BuiltinCalls

\* a step of sort(): with a key function the key is called on every element
\* of a list of at least min elements
SortStep(min) ==
    /\ AtSortCall(1) /\ ctrl'.m = "val" =>
          /\ ctrl'.v = NilV
          /\ lists' = lists
          /\ StableSorted(OwnKeys(Elems(Top.done[2].id)),
                          ElemsOf(lists', arrays', Top.done[2].id))
    /\ AtSortCall(2) /\ IsFunction(Top.done[3]) =>
          LET h == lists[Top.done[2].id]
          IN  IF h.len >= min
              THEN /\ ctrl' = Next_
                   /\ kont'[1] = SortFrame(Top.node.Function.pos, Top.done[2].id, Top.done[3],
                                           Iterator(h.arr, h.off, h.len), << >>)
                   /\ lists' = lists /\ arrays' = arrays
              ELSE /\ ctrl' = Val(NilV)
                   /\ kont' = Tail(kont)
                   /\ Calls(stats') = Calls(stats) + 1
                   /\ lists' = lists /\ arrays' = arrays /\ stdout' = stdout
    /\ AtSortNext /\ Top.it.index < Top.it.len =>
          LET at == Len(kont') - Len(kont) + 1
          IN  /\ Calls(stats') = Calls(stats) + 1
              /\ kont'[at] = [Top EXCEPT !.it.index = @ + 1,
                                         !.pairs = Append(@, [value |-> Produced(Top.it),
                                                              key |-> NilV])]
              /\ Top.keyFunc.k = "func" =>
                    /\ kont'[at - 1].f = "callFunction"
                    /\ kont'[at - 1].entry.args = <<Produced(Top.it)>>
                    /\ SubSeq(lists', 1, Len(lists)) = lists
                    /\ SubSeq(arrays', 1, Len(arrays)) = arrays
    /\ ctrl.m = "val" /\ Top.f = "sortFunc" =>
          /\ ctrl' = Next_
          /\ kont' = Push([Top EXCEPT !.pairs[Len(Top.pairs)].key = ctrl.v], Tail(kont))
    /\ AtSortNext /\ Top.it.index >= Top.it.len =>
          /\ Len(Top.pairs) = Top.it.len
          /\ Calls(stats') = Calls(stats)
          /\ ctrl'.m = "val" =>
                /\ ctrl'.v = NilV
                /\ Len(lists') = Len(lists)
                /\ \A i \in DOMAIN lists : i # Top.list => lists'[i] = lists[i]
                /\ SubSeq(arrays', 1, Len(arrays)) = arrays
                /\ StableSorted(Top.pairs, ElemsOf(lists', arrays', Top.list))

\* C15, as amended: sort(lst) and sort(lst, key) leave in the same list
\* object a permutation of its elements in non-decreasing order under <
\* (of the elements, or of their keys), elements with equal keys in their
\* former order; with a key function and a list of two elements or more,
\* key is called once on every element, in list order, before the list is
\* reordered; on a shorter list sort returns nil with no call of key
StableSort ==
    [][SortStep(2)]_allvars

\* C15, as stated: with a key function, key is called once on every element
\* of the list, whatever its length
StableSortEveryElement ==
    [][SortStep(1)]_allvars

\* a sort with a key function has put four elements with two pairs of equal
\* keys in order, after four calls of the key function
StableSortWitness ==
    /\ ctrl.m = "val"
    /\ ctrl.v = NilV
    /\ prog = Prog_sort_stable
    /\ stats.UserCalls = 4
    /\ \E id \in DOMAIN lists :
          /\ lists[id].len = 4
          /\ \A i \in 1..4 : Elems(id)[i].k = "list"
          /\ Elems(Elems(id)[1].id)[1] = IntV(1) /\ Elems(Elems(id)[1].id)[2] = StrV(<<98>>)
          /\ Elems(Elems(id)[2].id)[1] = IntV(1) /\ Elems(Elems(id)[2].id)[2] = StrV(<<100>>)
          /\ Elems(Elems(id)[3].id)[1] = IntV(2) /\ Elems(Elems(id)[3].id)[2] = StrV(<<97>>)
          /\ Elems(Elems(id)[4].id)[1] = IntV(2) /\ Elems(Elems(id)[4].id)[2] = StrV(<<99>>)

\* a sort with a key function has returned for a list of one element with
\* no call of the key function
SortOneWitness ==
    /\ prog = Prog_sort_one
    /\ ctrl.m = "done"
    /\ stats.UserCalls = 0
    /\ stats.BuiltinCalls = 4

\* deep equality of two values: the same primitive, lists and maps with
\* deeply equal contents, the same function
RECURSIVE DeepEqual(_, _)
DeepEqual(l, r) ==
    CASE l.k = "list" ->
            /\ r.k = "list"
            /\ Len(Elems(l.id)) = Len(Elems(r.id))
            /\ \A i \in DOMAIN Elems(l.id) : DeepEqual(Elems(l.id)[i], Elems(r.id)[i])
      [] l.k = "map" ->
            /\ r.k = "map"
            /\ DOMAIN maps[l.id] = DOMAIN maps[r.id]
            /\ \A key \in DOMAIN maps[l.id] : DeepEqual(maps[l.id][key], maps[r.id][key])
      [] OTHER -> l = r

\* the operands of a binary operator have their values
AtBinary(op) ==
    /\ ctrl.m = "apply"
    /\ Top.f = "operands"
    /\ Top.node.t = "Binary"
    /\ Top.node.Operator = op

\* C19: m1 == m2 on two maps is true iff they have the same keys and, for
\* every key, deeply equal values
MapEquality ==
    [][AtBinary("==") /\ Top.done[1].k = "map" /\ Top.done[2].k = "map" =>
          ctrl' = Val(BoolV(DeepEqual(Top.done[1], Top.done[2])))]_allvars

\* the arguments of a call of find() on a list have their values
AtFind ==
    /\ ctrl.m = "apply"
    /\ Top.f = "operands"
    /\ Top.node.t = "Call"
    /\ ~Top.node.Ellipsis
    /\ Len(Top.done) = 3
    /\ Top.done[1] = BuiltinV("find")
    /\ Top.done[2].k = "list"

\* the index find() is to return: of the first element deeply equal to
\* the needle, or -1
FirstEqual(elems, needle) ==
    IF \E i \in DOMAIN elems : DeepEqual(elems[i], needle)
    THEN (CHOOSE i \in DOMAIN elems :
             /\ DeepEqual(elems[i], needle)
             /\ \A j \in 1..(i - 1) : ~DeepEqual(elems[j], needle)) - 1
    ELSE 0 - 1

\* C20: ==, !=, `in` on a list and find() on a list, applied to function
\* values, user-defined or builtin, give without error the answer of
\* object identity
FunctionEquality ==
    [][/\ AtBinary("==") /\ IsFunction(Top.done[1]) /\ IsFunction(Top.done[2]) =>
             ctrl' = Val(BoolV(Top.done[1] = Top.done[2]))
       /\ AtBinary("!=") /\ IsFunction(Top.done[1]) /\ IsFunction(Top.done[2]) =>
             ctrl' = Val(BoolV(Top.done[1] # Top.done[2]))
       /\ AtBinary("in") /\ IsFunction(Top.done[1]) /\ Top.done[2].k = "list" =>
             ctrl' = Val(BoolV(\E i \in DOMAIN Elems(Top.done[2].id) :
                                  DeepEqual(Top.done[1], Elems(Top.done[2].id)[i])))
       /\ AtFind /\ IsFunction(Top.done[3]) =>
             ctrl' = Val(IntV(FirstEqual(Elems(Top.done[2].id), Top.done[3])))]_allvars


(***************************************************************************)
(* C16  Tokenizer position monotonicity: of any two successive calls of    *)
(* Next() on one tokenizer the second returns a position that is greater   *)
(* than or equal to the position the first returned, in the lexicographic  *)
(* order of (line, column), whatever lies between the two tokens (comments,*)
(* white space over several lines) and whatever the tokens are (ILLEGAL,   *)
(* the EOF that is returned again and again).                              *)
(***************************************************************************)
\* p is not after q in the order of (line, column)
PosLessEq(p, q) ==
    \/ p.Line < q.Line
    \/ p.Line = q.Line /\ p.Column <= q.Column

\* C16: the positions Next() returned so far never go back
TokenOrder ==
    \A i \in 1..(Len(tokens) - 1) : PosLessEq(tokens[i].pos, tokens[i + 1].pos)

\* a comment and an empty line lie between two tokens, and EOF was
\* returned three times
TokenOrderWitness ==
    /\ src = Source_assign_comment
    /\ Len(tokens) >= 3
    /\ \E i \in 1..(Len(tokens) - 1) : tokens[i + 1].pos.Line = tokens[i].pos.Line + 2
    /\ \A i \in (Len(tokens) - 2)..Len(tokens) : tokens[i].tok = "EOF"
    /\ tokens[Len(tokens)].pos = tokens[Len(tokens) - 2].pos

\* an ILLEGAL token on a later line, and tokens after it
TokenOrderIllegalWitness ==
    /\ \E i \in 1..(Len(tokens) - 1) :
          /\ tokens[i].tok = "ILLEGAL"
          /\ tokens[i].pos.Line > 1
          /\ tokens[i + 1].tok = "name"
    /\ tokens[Len(tokens)].tok = "EOF"

(***************************************************************************)
(* C17  Integer literals out of range: when the source holds an INT token  *)
(* whose digits denote a value outside the signed 64-bit range,            *)
(* ParseExpression and ParseProgram return a parser.Error with a position, *)
(* no other kind of failure.  The statement is made for the sources that   *)
(* begin with such a token: the tokenizer returns it as INT, not ILLEGAL,  *)
(* and both functions are certain to reach it.                             *)
(***************************************************************************)
\* the first token of the source is an INT that strconv.Atoi refuses
FirstTokenOverflows ==
    LET k == NextToken(NewTokenizer(src))
    IN  k.tok = "int" /\ ~Atoi(k.val).ok

\* C17: the parse functions return a parser.Error for such a source
OverflowIsParseError ==
    (parsed.set /\ FirstTokenOverflows) =>
        /\ parsed.r.kind = "error"
        /\ parsed.r.err.kind = "parse error"
        /\ parsed.r.err.pos.Line >= 1

(***************************************************************************)
(* C18  Round trip of String(): for every expression e that                *)
(* ParseExpression returns, ParseExpression of e.String() succeeds and     *)
(* returns an expression equal to e when the positions are ignored.        *)
(***************************************************************************)
RECURSIVE Unpositioned(_)

\* the nodes of a sequence without their positions
UnpositionedAll(nodes) ==
    [i \in DOMAIN nodes |-> Unpositioned(nodes[i])]

\* a node with the position of every node in it set to the zero Position
Unpositioned(node) ==
    LET n == [node EXCEPT !.pos = P(0, 0)]
    IN  CASE node.t = "Literal" -> n
          [] node.t = "Variable" -> n
          [] node.t = "Binary" ->
                [n EXCEPT !.Left = Unpositioned(@), !.Right = Unpositioned(@)]
          [] node.t = "Unary" -> [n EXCEPT !.Operand = Unpositioned(@)]
          [] node.t = "Call" ->
                [n EXCEPT !.Function = Unpositioned(@), !.Arguments = UnpositionedAll(@)]
          [] node.t = "List" -> [n EXCEPT !.Values = UnpositionedAll(@)]
          [] node.t = "Map" ->
                [n EXCEPT !.Items = [i \in DOMAIN @ |->
                                        MapItem(Unpositioned(@[i].Key), Unpositioned(@[i].Value))]]
          [] node.t = "Subscript" ->
                [n EXCEPT !.Container = Unpositioned(@), !.Subscript = Unpositioned(@)]
          [] node.t = "FunctionExpression" -> [n EXCEPT !.Body = UnpositionedAll(@)]
          [] node.t = "Assign" ->
                [n EXCEPT !.Target = Unpositioned(@), !.Value = Unpositioned(@)]
          [] node.t = "If" ->
                [n EXCEPT !.Condition = Unpositioned(@), !.Body = UnpositionedAll(@),
                          !.Else = UnpositionedAll(@)]
          [] node.t = "While" ->
                [n EXCEPT !.Condition = Unpositioned(@), !.Body = UnpositionedAll(@)]
          [] node.t = "For" ->
                [n EXCEPT !.Iterable = Unpositioned(@), !.Body = UnpositionedAll(@)]
          [] node.t = "Return" -> [n EXCEPT !.Result = Unpositioned(@)]
          [] node.t = "ExpressionStatement" -> [n EXCEPT !.Expression = Unpositioned(@)]
          [] node.t = "FunctionDefinition" -> [n EXCEPT !.Body = UnpositionedAll(@)]

\* the expression was printed and the text parsed to an equal expression
RoundTripped ==
    /\ reparsed.r.kind = "ok"
    /\ Unpositioned(reparsed.r.v) = Unpositioned(parsed.r.v)

\* C18: every expression ParseExpression returns survives the round trip
RoundTrip ==
    reparsed.set => RoundTripped

(***************************************************************************)
(* Builtins and operators: the text of a map, *, split().                  *)
(***************************************************************************)
\* the function and the arguments of a call of the builtin name, without
\* ..., have their values
AtBuiltin(name) ==
    /\ ctrl.m = "apply"
    /\ Top.f = "operands"
    /\ Top.node.t = "Call"
    /\ ~Top.node.Ellipsis
    /\ Top.done[1] = BuiltinV(name)

\* the text of a value with the entries of every map in ascending byte
\* order of the keys
RECURSIVE TextByKeys(_, _)
TextByKeys(value, quoteStr) ==
    CASE value.k = "list" ->
            LET elems == Elems(value.id)
            IN  <<91>> \o Join([i \in 1..Len(elems) |-> TextByKeys(elems[i], TRUE)], <<44, 32>>)
                       \o <<93>>
      [] value.k = "map" ->
            LET m == maps[value.id]
                keys == SortStrings(DOMAIN m)
            IN  <<123>> \o Join([i \in 1..Len(keys) |->
                                    Quote(keys[i]) \o <<58, 32>> \o TextByKeys(m[keys[i]], TRUE)],
                                <<44, 32>>)
                        \o <<125>>
      [] OTHER -> toString(value, quoteStr)

\* a list or a map is among the values
AnyMap(values) ==
    \E i \in DOMAIN values : values[i].k = "map"

\* C21: str(m) and print(m) of a map give its entries in ascending byte
\* order of the keys, whatever the order the keys were inserted in
MapTextByKeys ==
    [][/\ AtBuiltin("str") /\ Len(Top.done) = 2 /\ Top.done[2].k = "map" =>
             ctrl' = Val(StrV(TextByKeys(Top.done[2], FALSE)))
       /\ AtBuiltin("print") /\ AnyMap(Tail(Top.done)) =>
             stdout' = stdout \o Join([i \in 1..(Len(Top.done) - 1) |->
                                          TextByKeys(Top.done[i + 1], FALSE)], <<32>>)
                              \o <<10>>]_allvars

\* the new state holds the result value v, a list that was not there
\* before and that has the elements elems
NewListResult(elems) ==
    /\ ctrl'.m = "val"
    /\ ctrl'.v.k = "list"
    /\ ctrl'.v.id \notin 1..Len(lists)
    /\ ElemsOf(lists', arrays', ctrl'.v.id) = elems

\* every list there is keeps its elements in the new state
ListsKept ==
    \A id \in 1..Len(lists) : ElemsOf(lists', arrays', id) = Elems(id)

Raises(kind) ==
    /\ ctrl'.m = "panic"
    /\ ctrl'.p.kind = kind

\* what l * r is to give
TimesResult(l, r) ==
    CASE l.k = "int" /\ r.k = "int" -> ctrl' = Val(IntV(l.n * r.n))
      [] l.k = "int" /\ r.k = "str" ->
            IF l.n < 0 THEN Raises("value error") ELSE ctrl' = Val(StrV(Repeat(r.s, l.n)))
      [] l.k = "str" /\ r.k = "int" ->
            IF r.n < 0 THEN Raises("value error") ELSE ctrl' = Val(StrV(Repeat(l.s, r.n)))
      [] l.k = "int" /\ r.k = "list" ->
            l.n >= 0 => NewListResult(Repeat(Elems(r.id), l.n)) /\ ListsKept
      [] l.k = "list" /\ r.k = "int" ->
            r.n >= 0 => NewListResult(Repeat(Elems(l.id), r.n)) /\ ListsKept
      [] OTHER -> Raises("type error")

\* C22: * multiplies two ints, repeats a str or a list by an int (a new
\* list; a negative count of a str is a ValueError) and is a TypeError on
\* every other pair of operands
TimesOperator ==
    [][AtBinary("*") => TimesResult(Top.done[1], Top.done[2])]_allvars

\* the list of strs of the strings
StrValues(strings) ==
    [i \in 1..Len(strings) |-> StrV(strings[i])]

\* what split() called at pos with args is to give
SplitResult(pos, args) ==
    IF Len(args) # 1 /\ Len(args) # 2
    THEN ctrl' = Panic(typeError(pos, "split() requires 1 or 2 args, got %d",
                                 <<FormatInt(Len(args))>>))
    ELSE IF args[1].k # "str" THEN TRUE
    ELSE IF Len(args) = 1 \/ args[2].k = "nil"
    THEN NewListResult(StrValues(Fields(args[1].s)))
    ELSE IF args[2].k = "str"
    THEN Len(args[2].s) > 0 => NewListResult(StrValues(Split(args[1].s, args[2].s)))
    ELSE TRUE

\* C23: split(s) is split(s, nil), the fields of s between runs of white
\* space; split(s, sep) with a non-empty str sep splits at sep; any other
\* number of arguments is the TypeError split() requires 1 or 2 args
SplitArguments ==
    [][AtBuiltin("split") => SplitResult(Top.node.Function.pos, Tail(Top.done))]_allvars

(***************************************************************************)
(* Subscripts out of range.                                                *)
(***************************************************************************)
\* the container and the subscript of a subscript expression have their
\* values
AtSubscript ==
    /\ ctrl.m = "apply"
    /\ Top.f = "operands"
    /\ Top.node.t = "Subscript"

\* the container, the subscript and the value of an assignment to a
\* subscript have their values
AtAssignSubscript ==
    /\ ctrl.m = "apply"
    /\ Top.f = "operands"
    /\ Top.node.t = "Assign"
    /\ Top.node.Target.t = "Subscript"

\* an int subscript outside 0 <= i < len of a str or a list
OutOfRange(container, subscript) ==
    /\ subscript.k = "int"
    /\ container.k \in {"str", "list"}
    /\ \/ subscript.n < 0
       \/ subscript.n >= (IF container.k = "str" THEN Len(container.s)
                          ELSE lists[container.id].len)

\* a subscript out of range, read or assigned, is a ValueError and
\* changes no list and no map
RangeChecked ==
    /\ AtSubscript /\ OutOfRange(Top.done[1], Top.done[2]) =>
          Raises("value error") /\ UNCHANGED <<lists, arrays, maps>>
    /\ AtAssignSubscript /\ Top.done[1].k = "list" /\ OutOfRange(Top.done[1], Top.done[2]) =>
          Raises("value error") /\ UNCHANGED <<lists, arrays, maps>>

\* Execute returns for the program lst=[1,2,3] lst[-1]
NegativeSubscriptEnds ==
    /\ prog = Prog_subscript_negative
    /\ ctrl.m # "done"
    /\ ctrl'.m = "done"

\* value error at 1:column: subscript -1 out of range
SubscriptError(column) ==
    valueError(P(1, column), "subscript %d out of range", <<<<45, 49>>>>)

\* C24, as the claim states it: the program lst=[1,2,3] lst[-1] ends with
\* value error at 1:16: subscript -1 out of range, and a subscript out of
\* range is always a ValueError that leaves the container as it was
SubscriptErrorAtBracket ==
    [][/\ RangeChecked
       /\ NegativeSubscriptEnds => err' = SubscriptError(16)]_allvars

\* C24: the program lst=[1,2,3] lst[-1] ends with value error at 1:17:
\* subscript -1 out of range, the position of the subscript expression -1,
\* and a subscript out of range, read or assigned, negative or too large,
\* is always a ValueError that leaves the container as it was
SubscriptErrorAtExpression ==
    [][/\ RangeChecked
       /\ NegativeSubscriptEnds => err' = SubscriptError(17)]_allvars

\* the program lst=[1,2,3] lst[-1] has ended with the error of its
\* subscript, and the list still holds 1, 2, 3
SubscriptErrorWitness ==
    /\ prog = Prog_subscript_negative
    /\ ctrl.m = "done"
    /\ err = SubscriptError(17)
    /\ lastError.set
    /\ Len(lists) = 1
    /\ Elems(1) = <<IntV(1), IntV(2), IntV(3)>>

(***************************************************************************)
(* The shape of the expressions the parser builds.                         *)
(***************************************************************************)
\* the precedence of the operator of a node, from low to high; a primary
\* expression binds tightest
Level(node) ==
    CASE node.t = "Binary" ->
            (CASE node.Operator = "or" -> 1
               [] node.Operator = "and" -> 2
               [] node.Operator \in {"==", "!="} -> 4
               [] node.Operator \in {"<", "<=", ">", ">=", "in"} -> 5
               [] node.Operator \in {"+", "-"} -> 6
               [] node.Operator \in {"*", "/", "%"} -> 7)
      [] node.t = "Unary" -> (IF node.Operator = "not" THEN 3 ELSE 8)
      [] node.t \in {"Call", "Subscript"} -> 9
      [] OTHER -> 10

\* an expression written without parentheses round an operand: every
\* operand binds as tight as its operator or tighter, the right operand
\* of a binary operator tighter (left associativity), and the operand of
\* a prefix operator may be another prefix operator (nesting to the right)
RECURSIVE WellNested(_)
WellNested(node) ==
    CASE node.t = "Binary" ->
            /\ Level(node.Left) >= Level(node)
            /\ Level(node.Right) > Level(node)
            /\ WellNested(node.Left)
            /\ WellNested(node.Right)
      [] node.t = "Unary" ->
            /\ Level(node.Operand) >= Level(node)
            /\ WellNested(node.Operand)
      [] node.t = "Call" ->
            /\ Level(node.Function) >= Level(node)
            /\ WellNested(node.Function)
            /\ \A i \in DOMAIN node.Arguments : WellNested(node.Arguments[i])
      [] node.t = "Subscript" ->
            /\ Level(node.Container) >= Level(node)
            /\ WellNested(node.Container)
            /\ WellNested(node.Subscript)
      [] OTHER -> TRUE

\* the words of an expression of names and operators, from left to right
RECURSIVE Yield(_)
Yield(node) ==
    CASE node.t = "Binary" ->
            Yield(node.Left) \o <<TokenString(node.Operator)>> \o Yield(node.Right)
      [] node.t = "Unary" -> <<TokenString(node.Operator)>> \o Yield(node.Operand)
      [] node.t = "Call" ->
            Yield(node.Function) \o <<<<40>>>> \o Yield(node.Arguments[1]) \o <<<<41>>>>
      [] node.t = "Subscript" ->
            Yield(node.Container) \o <<<<91>>>> \o Yield(node.Subscript) \o <<<<93>>>>
      [] node.t = "Variable" -> <<node.Name>>

\* the words of a text that has one space between its words
Words(text) ==
    Split(text, <<32>>)

\* the operators whose operands are below `not` in the grammar
TighterThanNot ==
    BinaryWords \ {<<111, 114>>, <<97, 110, 100>>}

\* a `not` stands where the grammar has no place for it: after an operator
\* that binds tighter than `not`
MisplacedNot(words) ==
    \E i \in 1..(Len(words) - 1) :
        /\ words[i + 1] = <<110, 111, 116>>
        /\ words[i] \in TighterThanNot

\* ParseExpression has returned for an expression of operators
OperatorsParsed ==
    /\ parsed.set
    /\ parsed.f = "ParseExpression"
    /\ src \in OperatorSources

\* C25: the parser gives an expression of operators the tree of the
\* precedence or < and < not < ==, != < <, <=, >, >=, in < +, - < *, /, %
\* < unary - < call, subscript, with binary operators associating to the
\* left and prefix operators nesting to the right; it refuses only a `not`
\* after an operator that binds tighter
OperatorPrecedence ==
    OperatorsParsed =>
        IF MisplacedNot(Words(src)) THEN parsed.r.kind = "error"
        ELSE /\ parsed.r.kind = "ok"
             /\ WellNested(parsed.r.v)
             /\ Yield(parsed.r.v) = Words(src)

\* not a - b * - c was parsed as not (a - (b * (- c)))
OperatorPrecedenceWitness ==
    /\ OperatorsParsed
    /\ parsed.r.kind = "ok"
    /\ Words(src) = <<<<110, 111, 116>>, <<97>>, <<45>>, <<98>>, <<42>>, <<45>>, <<99>>>>
    /\ Unpositioned(parsed.r.v) =
          Unary(P(0, 0), "not",
                Binary(P(0, 0), Variable(P(0, 0), <<97>>), "-",
                       Binary(P(0, 0), Variable(P(0, 0), <<98>>), "*",
                              Unary(P(0, 0), "-", Variable(P(0, 0), <<99>>)))))

\* in the node and in every node under it, a function or a call with ...
\* has a parameter or an argument
RECURSIVE EllipsisNonEmpty(_)

EllipsisNonEmptyAll(nodes) ==
    \A i \in DOMAIN nodes : EllipsisNonEmpty(nodes[i])

EllipsisNonEmpty(node) ==
    CASE node.t \in {"Literal", "Variable"} -> TRUE
      [] node.t = "Binary" -> EllipsisNonEmpty(node.Left) /\ EllipsisNonEmpty(node.Right)
      [] node.t = "Unary" -> EllipsisNonEmpty(node.Operand)
      [] node.t = "Call" ->
            /\ node.Ellipsis => Len(node.Arguments) >= 1
            /\ EllipsisNonEmpty(node.Function)
            /\ EllipsisNonEmptyAll(node.Arguments)
      [] node.t = "List" -> EllipsisNonEmptyAll(node.Values)
      [] node.t = "Map" ->
            \A i \in DOMAIN node.Items :
                EllipsisNonEmpty(node.Items[i].Key) /\ EllipsisNonEmpty(node.Items[i].Value)
      [] node.t = "Subscript" ->
            EllipsisNonEmpty(node.Container) /\ EllipsisNonEmpty(node.Subscript)
      [] node.t \in {"FunctionExpression", "FunctionDefinition"} ->
            /\ node.Ellipsis => Len(node.Parameters) >= 1
            /\ EllipsisNonEmptyAll(node.Body)
      [] node.t = "Assign" -> EllipsisNonEmpty(node.Target) /\ EllipsisNonEmpty(node.Value)
      [] node.t = "If" ->
            /\ EllipsisNonEmpty(node.Condition)
            /\ EllipsisNonEmptyAll(node.Body)
            /\ EllipsisNonEmptyAll(node.Else)
      [] node.t = "While" -> EllipsisNonEmpty(node.Condition) /\ EllipsisNonEmptyAll(node.Body)
      [] node.t = "For" -> EllipsisNonEmpty(node.Iterable) /\ EllipsisNonEmptyAll(node.Body)
      [] node.t = "Return" -> EllipsisNonEmpty(node.Result)
      [] node.t = "ExpressionStatement" -> EllipsisNonEmpty(node.Expression)

\* the words between the ( of a call or a function and the end of the text
ItemsOf(words) ==
    IF words[2] = <<40>> THEN SubSeq(words, 3, Len(words)) ELSE SubSeq(words, 4, Len(words))

\* the place of the first ... among the items, 0 if there is none
FirstEllipsis(items) ==
    IF \E i \in DOMAIN items : items[i] = <<46, 46, 46>>
    THEN CHOOSE i \in DOMAIN items :
            /\ items[i] = <<46, 46, 46>>
            /\ \A j \in 1..(i - 1) : items[j] # <<46, 46, 46>>
    ELSE 0

\* the first ... comes after a name, and before that name there are names
\* with commas between them
AfterNames(items) ==
    /\ FirstEllipsis(items) > 0
    /\ FirstEllipsis(items) % 2 = 0
    /\ \A j \in 1..(FirstEllipsis(items) - 1) :
          items[j] = IF j % 2 = 1 THEN <<97>> ELSE <<44>>

\* what comes after the first ... and the comma there may be behind it
AfterEllipsis(items) ==
    LET rest == SubSeq(items, FirstEllipsis(items) + 1, Len(items))
    IN  IF Len(rest) > 0 /\ rest[1] = <<44>> THEN Tail(rest) ELSE rest

\* the error of a ... that is not the last thing between the parentheses
EllipsisError(words) ==
    IF words[1] = <<102>> THEN "can only have ... after last argument"
    ELSE "can only have ... after last parameter"

\* the call or the function that was parsed
ParsedNode ==
    IF parsed.f = "ParseExpression" THEN parsed.r.v
    ELSE IF parsed.r.v[1].t = "ExpressionStatement" THEN parsed.r.v[1].Expression
    ELSE parsed.r.v[1]

\* the number of arguments or of parameters of a node
Arity(node) ==
    IF node.t = "Call" THEN Len(node.Arguments) ELSE Len(node.Parameters)

\* the parser was given a call or a function that it can parse up to the
\* first ... in it
EllipsisParsed ==
    /\ parsed.set
    /\ src \in EllipsisSources
    /\ src \in DefinitionSources => parsed.f = "ParseProgram"
    /\ AfterNames(ItemsOf(Words(src)))

\* the text ends with the closing parenthesis after the ..., and with the
\* body if it is a function
EndsAfterEllipsis(words) ==
    AfterEllipsis(ItemsOf(words)) \in {<<<<41>>>>, <<<<41>>, <<123>>, <<125>>>>}

\* a ... with something else after it than a comma and the closing
\* parenthesis is the parse error `can only have ... after last`; a ...
\* that is the last is in the tree, after all the names before it
EllipsisLast ==
    EllipsisParsed =>
        IF AfterEllipsis(ItemsOf(Words(src))) = << >>
           \/ AfterEllipsis(ItemsOf(Words(src)))[1] # <<41>>
        THEN /\ parsed.r.kind = "error"
             /\ parsed.r.err.format = EllipsisError(Words(src))
        ELSE EndsAfterEllipsis(Words(src)) =>
                /\ parsed.r.kind = "ok"
                /\ ParsedNode.Ellipsis
                /\ Arity(ParsedNode) = FirstEllipsis(ItemsOf(Words(src))) \div 2

\* the tree of the text that was parsed
ParsedTree ==
    IF parsed.f = "ParseExpression" THEN <<parsed.r.v>> ELSE parsed.r.v

\* C27: in every tree the parser returns, a function or a call with ...
\* has at least one parameter or argument; a ... that is followed by
\* anything but an optional comma and the closing parenthesis is the parse
\* error `can only have ... after last parameter`, or `argument`
EllipsisInvariant ==
    /\ parsed.set /\ parsed.r.kind = "ok" => EllipsisNonEmptyAll(ParsedTree)
    /\ EllipsisLast

\* f ( a , a ... ) was parsed as a call with ... and two arguments
EllipsisInvariantWitness ==
    /\ parsed.set
    /\ parsed.f = "ParseExpression"
    /\ src = <<102, 32, 40, 32, 97, 32, 44, 32, 97, 32, 46, 46, 46, 32, 41>>
    /\ parsed.r.kind = "ok"
    /\ parsed.r.v.t = "Call"
    /\ parsed.r.v.Ellipsis
    /\ Len(parsed.r.v.Arguments) = 2

\* func ( a ... , a { } was refused for what comes after its ...
EllipsisErrorWitness ==
    /\ parsed.set
    /\ src = <<102, 117, 110, 99, 32, 40, 32, 97, 32, 46, 46, 46, 32, 44, 32, 97, 32, 123, 32,
               125>>
    /\ parsed.r.kind = "error"
    /\ parsed.r.err.format = "can only have ... after last parameter"

(***************************************************************************)
(* The turns of a for loop.                                                *)
(***************************************************************************)
\* the frame d frames above the bottom of the Go call stack
FromBottom(k, d) ==
    k[Len(k) - d + 1]

\* the iterable of a for loop has its value
AtForIterable ==
    /\ ctrl.m = "apply"
    /\ Top.f = "operands"
    /\ Top.node.t = "For"

\* the values the iterator is to produce, in the new state
ToProduce(it) ==
    {arrays'[it.arr][it.off + i] : i \in 1..it.len}

\* a loop over a list starts with as many turns to make as the list is
\* long, a loop over a map with one turn for each of its keys
LoopStarts ==
    AtForIterable /\ Top.done[1].k \in {"list", "map"} =>
        /\ Len(kont') = Len(kont)
        /\ kont'[1].f = "for"
        /\ kont'[1].it.index = 0
        /\ IF Top.done[1].k = "list"
           THEN kont'[1].it.len = lists[Top.done[1].id].len
           ELSE /\ kont'[1].it.len = Cardinality(DOMAIN maps[Top.done[1].id])
                /\ ToProduce(kont'[1].it) = {StrV(key) : key \in DOMAIN maps[Top.done[1].id]}

\* a loop with turns to make runs its body and has one turn less to make;
\* a loop with no turns to make ends
LoopTurns ==
    AtFor =>
        IF Top.it.index < Top.it.len
        THEN kont' = Push(BlockFrame(Top.s.Body),
                          Push([Top EXCEPT !.it.index = @ + 1], Tail(kont)))
        ELSE kont' = Tail(kont)

\* whatever is done while the body of a loop runs, the loop keeps its
\* iterator, and so the number of its turns
LoopsKept ==
    \A d \in 1..Len(kont) :
        /\ FromBottom(kont, d).f = "for"
        /\ ~(d = Len(kont) /\ ctrl.m \in {"next", "panic"})
        => /\ Len(kont') >= d
           /\ FromBottom(kont', d) = FromBottom(kont, d)

\* the backing arrays that lists have
ListArrays ==
    {lists[id].arr : id \in 1..Len(lists)}

\* the keys a loop over a map has still to visit are not changed: its
\* iterator has an array of its own
KeysKept ==
    \A d \in 1..Len(kont) :
        /\ FromBottom(kont, d).f = "for"
        /\ FromBottom(kont, d).it.arr \notin ListArrays
        => arrays'[FromBottom(kont, d).it.arr] = arrays[FromBottom(kont, d).it.arr]

\* C26: a for loop over a list makes as many turns as the list was long
\* when the loop started, and a loop over a map one turn for each key the
\* map had then, whatever the body does to the list or the map
LoopTurnsFixed ==
    [][LoopStarts /\ LoopTurns /\ LoopsKept /\ KeysKept]_allvars

\* a loop over a list of 3 has ended after 3 turns, each of which appended
\* to the list, which now has 6 elements
LoopTurnsFixedWitness ==
    /\ prog = Prog_for_append
    /\ AtFor
    /\ Top.it.len = 3
    /\ Top.it.index = 3
    /\ lists[1].len = 6
    /\ stdout = <<49, 10, 50, 10, 51, 10>>

\* a loop over a map of one key has ended after one turn, which added a
\* key to the map
LoopOverMapWitness ==
    /\ prog = Prog_for_map_add
    /\ AtFor
    /\ Top.it.len = 1
    /\ Top.it.index = 1
    /\ DOMAIN maps[1] = {<<97>>, <<97, 97>>}

(***************************************************************************)
(* == as an equivalence.                                                   *)
(***************************************************************************)
\* a value with no function in it
RECURSIVE IsData(_)
IsData(v) ==
    CASE v.k \in {"nil", "bool", "int", "str"} -> TRUE
      [] v.k = "list" -> \A i \in DOMAIN Elems(v.id) : IsData(Elems(v.id)[i])
      [] v.k = "map" -> \A key \in DOMAIN maps[v.id] : IsData(maps[v.id][key])
      [] OTHER -> FALSE

\* the operands of == or != have their values, and no function in them
AtDataEquality(op) ==
    /\ AtBinary(op)
    /\ IsData(Top.done[1])
    /\ IsData(Top.done[2])

\* the bools that l == r can give
EqualBools(l, r) ==
    {BoolV(o = "true") : o \in evalEqual(l, r) \cap {"true", "false"}}

\* C28: on values without functions == never raises, a == a is true,
\* a == b gives the bool that b == a gives, and a != b gives the negation
\* of a == b
EqualityEquivalence ==
    [][/\ AtDataEquality("==") =>
             /\ ctrl'.m = "val"
             /\ ctrl'.v.k = "bool"
             /\ Top.done[1] = Top.done[2] => ctrl'.v.b
             /\ ctrl'.v \in EqualBools(Top.done[2], Top.done[1])
       /\ AtDataEquality("!=") =>
             /\ ctrl'.m = "val"
             /\ ctrl'.v.k = "bool"
             /\ BoolV(~ctrl'.v.b) \in EqualBools(Top.done[1], Top.done[2])]_allvars

(***************************************************************************)
(* The shape of the scope stack.                                           *)
(***************************************************************************)
\* the calls of user functions that are in progress: the activations of
\* userFunction.call on the Go call stack
Activations ==
    Cardinality({i \in DOMAIN kont : kont[i].f = "userFunction.call"})

\* C29: the scope stack is never empty, its bottom is the global scope
\* that newInterpreter made, with the names of the builtins in it, and it
\* holds two scopes more for every call of a user function in progress;
\* so a call of a builtin, which is no such call, pushes no scope
ScopeStackShape ==
    /\ Len(vars) >= 1
    /\ vars[1] = 1
    /\ BuiltinNames \subseteq DOMAIN scopes[1]
    /\ Len(vars) = 1 + 2 * Activations

\* a builtin is about to be called inside a call of a user function that
\* is itself inside a call of a user function
ScopeStackShapeWitness ==
    /\ ctrl.m = "apply"
    /\ Top.f = "operands"
    /\ Top.node.t = "Call"
    /\ Top.done[1].k = "builtin"
    /\ Activations = 2
    /\ Len(vars) = 5

(***************************************************************************)
(* The calls of Next() on one tokenizer come to an end.                    *)
(***************************************************************************)
\* the tokens after which a caller stops
Terminal(tok) ==
    tok \in {"EOF", "ILLEGAL"}

\* the bytes of the input that lie before the current codepoint: offset is
\* the offset after the current codepoint while there is one, and the
\* offset of the end or of the byte that did not decode when ch is -1
Consumed(t) ==
    IF t.ch >= 0 THEN t.offset - 1 ELSE t.offset

\* this step is a call of Next()
CalledNext ==
    Len(tokens') = Len(tokens) + 1

\* what the call returned
TokenReturned ==
    tokens'[Len(tokens')]

\* after len(input)+1 calls one of them has returned EOF or ILLEGAL
EndWithinLength ==
    Len(tokens') > Len(src) =>
        \E i \in 1..(Len(src) + 1) : Terminal(tokens'[i].tok)

\* after an EOF every call returns EOF at the position of that EOF
EOFStays ==
    \A i \in DOMAIN tokens :
        tokens[i].tok = "EOF" => /\ TokenReturned.tok = "EOF"
                                 /\ TokenReturned.pos = tokens[i].pos

\* the tokenizer stands before a byte that did not decode
AtInvalidByte ==
    /\ tokenizer.ch < 0
    /\ tokenizer.offset < Len(src)

\* at such a byte every call returns ILLEGAL with the message that names
\* the byte, and the tokenizer stays at the byte
IllegalStays ==
    AtInvalidByte =>
        /\ TokenReturned.tok = "ILLEGAL"
        /\ TokenReturned.val = Msg("invalid UTF-8 byte 0x%02x", <<src[tokenizer.offset + 1]>>)
        /\ tokenizer'.offset = tokenizer.offset
        /\ tokenizer'.ch < 0

\* a call of Next(), of which advanced says how far it went when it
\* returned a token other than EOF and ILLEGAL
TokenizingStep(advanced) ==
    CalledNext =>
        /\ ~Terminal(TokenReturned.tok) => advanced
        /\ EndWithinLength
        /\ EOFStays
        /\ IllegalStays

\* C30 as it is stated: a call of Next() that returns a token other than
\* EOF and ILLEGAL has advanced the byte offset of the tokenizer by at
\* least one; len(input)+1 calls reach EOF or ILLEGAL; EOF and the ILLEGAL
\* of a byte that is not UTF-8 are returned again by every later call
TokenizingAdvancesOffset ==
    [][TokenizingStep(tokenizer'.offset >= tokenizer.offset + 1)]_allvars

\* C30: a call of Next() that returns a token other than EOF and ILLEGAL
\* has consumed at least one byte of the input, which is to say that the
\* offset of the current codepoint has advanced by at least one, while the
\* byte offset of the tokenizer, which runs one codepoint ahead, stays
\* where it is for a token that ends the input; len(input)+1 calls reach
\* EOF or ILLEGAL; EOF and the ILLEGAL of a byte that is not UTF-8 are
\* returned again by every later call
TokenizingTerminates ==
    [][TokenizingStep(Consumed(tokenizer') >= Consumed(tokenizer) + 1)]_allvars

\* "a /" gave a name and a "/", the second with the byte offset left at
\* the end of the input, and then EOF twice at 1:4
TokenizingTerminatesWitness ==
    /\ src = <<97, 32, 47>>
    /\ Len(tokens) = 4
    /\ tokens[1].tok = "name"
    /\ tokens[2].tok = "/"
    /\ tokens[3] = [pos |-> P(1, 4), tok |-> "EOF", val |-> << >>]
    /\ tokens[4] = tokens[3]
    /\ tokenizer.offset = 3

\* "a" and a byte that is not UTF-8 gave a name and then ILLEGAL twice
IllegalStaysWitness ==
    /\ src = <<97, 255>>
    /\ Len(tokens) = 3
    /\ tokens[1].tok = "name"
    /\ tokens[2].tok = "ILLEGAL"
    /\ tokens[2].val = Msg("invalid UTF-8 byte 0x%02x", <<255>>)
    /\ tokens[3] = tokens[2]

====
